---- MODULE Spec2Model ----
(***************************************************************************)
(* Hash-join executor of the pgSQL12.5 tree.                               *)
(*                                                                         *)
(*  - ExecSymHashJoin   (src/src/backend/executor/nodeSymHashjoin.c)       *)
(*  - ExecHashJoinImpl, ExecInitHashJoin, ExecReScanHashJoin,              *)
(*    ExecParallelHashJoinNewBatch (src/backend/executor/nodeHashjoin.c)   *)
(*                                                                         *)
(* The Hash node (nodeHash.c: ExecHash, ExecHashTableCreate,               *)
(* ExecScanHashBucket, the unmatched scans) and the Barrier primitive are  *)
(* not among the source files; they are modelled from the design           *)
(* description and from the way the two operators call them.               *)
(***************************************************************************)
EXTENDS Integers, Sequences, FiniteSets, TLC

(***************************************************************************)
(* Bounds of the model.                                                    *)
(***************************************************************************)
\* longest input of one producer
MaxLen == 2
\* calls made by the caller after the operator has reported end-of-stream
MaxExtraCalls == 2
\* ExecReScanHashJoin calls in one run
MaxRescans == 1
\* workers of a parallel query
NWorkers == 2
\* batches of a parallel hash table
NBatch == 2
\* records saved to one batch file
MaxRecords == 2
\* batches a table may grow to
MaxNBatch == 4
\* rows the memory of a batched table may hold before the table grows
SpaceAllowed == 1
\* inner rows inserted during the build of a batched table
MaxBuild == 3
\* outer rows of the first pass over a batched table
MaxProbe == 2
\* tuples in the shared inner tuplestore of a batch of the parallel join
BatchRows == 2
\* elements of a vector, at most
MaxDim == 3
\* characters between the first and the last of a text given to vector_in
MaxText == 5
\* tuples in the heap that dirtyread scans, at most
MaxHeap == 4
\* rounds of a loop that changes nothing
MaxSpins == 2

(***************************************************************************)
(* Program constants.                                                      *)
(***************************************************************************)
\* nodeHashjoin.c: states of the ExecHashJoin state machine
HJ_BUILD_HASHTABLE == 1
HJ_NEED_NEW_INNER == 2
HJ_SCAN_OUTER_BUCKET == 3
HJ_NEED_NEW_OUTER == 4
HJ_SCAN_INNER_BUCKET == 5
HJ_FILL_TUPLES == 6

\* nodeSymHashjoin.c: the same names carry other numbers in that file
SYM_HJ_BUILD_HASHTABLE == 1
SYM_HJ_NEED_NEW_OUTER == 2
SYM_HJ_NEED_NEW_INNER == 3
SYM_HJ_FILL_TUPLES == 4
SYM_HJ_SCAN_OUTER_BUCKET == 5
SYM_HJ_SCAN_INNER_BUCKET == 6

\* a NULL join key; a NULL tuple pointer / empty slot is row 0
NULLKEY == 0
Keys == {1, 2}
KeyVals == Keys \cup {NULLKEY}

JoinTypes == {"JOIN_INNER", "JOIN_LEFT", "JOIN_RIGHT", "JOIN_FULL"}

\* a NULL ExprState: "joinqual == NULL" / "otherqual == NULL"
NULLQ == "NULL"
\* the qualifier pairs <<joinqual, otherqual>> the plans of the model carry
QualCases == {<<NULLQ, NULLQ>>, <<"outer_is_1", NULLQ>>, <<NULLQ, "inner_is_1">>}

\* bucket counts <<inner table, outer table>> ExecHashTableCreate may choose
BucketLayouts == {<<2, 2>>, <<1, 2>>, <<2, 1>>}

Inputs == UNION {[1..k -> KeyVals] : k \in 0..MaxLen}

VARIABLES
    impl,          \* "sym": ExecSymHashJoin, "hj": ExecHashJoinImpl
    planJoinType,  \* node->join.jointype of the plan
    joinqual,      \* node->js.joinqual
    otherqual,     \* node->js.ps.qual
    outerIn,       \* rows (join keys) the outer producer delivers, in order
    innerIn,       \* rows (join keys) the inner producer delivers, in order
    pulls,         \* ExecProcNode calls made on each producer since its last rescan
    node,          \* HashJoinState
    hashNode,      \* the two HashState children (fields the operator reads)
    tab,           \* the two hash tables (NULLTABLE while not created)
    econtext,      \* ecxt_outertuple / ecxt_innertuple (row numbers)
    running,       \* a call of the operator is in progress
    ret,           \* how the last call ended: "none" | "row" | "eos" | "crash"
    out,           \* rows returned to the caller since the last rescan
    eosCalls,      \* calls that returned end-of-stream since the last rescan
    rescans,       \* ExecReScanHashJoin calls so far
    firstOut,      \* the rows returned before the last rescan, and whether
                   \* that scan had reached end-of-stream
    share,         \* share[side][k]: the worker whose partial scan delivers row k
    worker,        \* the backend running: 0 the leader alone (ExecHashJoin),
                   \* 1..NWorkers a worker of the parallel query
    outs,          \* per backend that ran before: the rows returned to it and
                   \* the bucket counts <<inner, outer>> of its two tables
    batches,       \* ParallelHashJoinBatch: the per-batch barriers
    distributor,   \* parallel_state->distributor
    participant,   \* per worker: its place in ExecParallelHashJoinNewBatch
    batchFile,     \* a BufFile of one batch: open or not, its words, read position
    hashTupleSlot, \* hj_HashTupleSlot of the spill reader: 0 when cleared
    spillTrace,    \* what the spill calls were given and what they returned
    hashtable,     \* the HashJoinTable ExecHashJoinNewBatch works on
    interruptPending, \* a cancel request not yet served (InterruptPending)
    spins,         \* rounds of ExecHashJoinImpl's loop that matched no case
    dsm,           \* the backend's tie to the ParallelHashJoinState in shared memory
    srf,           \* pg_dirtyread: the heap, the FuncCallContext, what was returned
    vec            \* the vector type: the arguments of a call and what it returned

vars == <<impl, planJoinType, joinqual, otherqual, outerIn, innerIn, pulls, node,
          hashNode, tab, econtext, running, ret, out, eosCalls, rescans, firstOut,
          share, worker, outs, batches, distributor, participant,
          batchFile, hashTupleSlot, spillTrace, hashtable, interruptPending,
          spins, dsm, srf, vec>>

plan == <<impl, planJoinType, joinqual, otherqual, outerIn, innerIn, share>>
backends == <<worker, outs>>
parallelVars == <<batches, distributor, participant, dsm>>
spillVars == <<batchFile, hashTupleSlot, spillTrace, hashtable>>
extVars == <<srf, vec>>

(***************************************************************************)
(* Expression evaluation and hashing (external collaborators).             *)
(***************************************************************************)
OuterKey(o) == IF o = 0 THEN NULLKEY ELSE outerIn[o]
InnerKey(i) == IF i = 0 THEN NULLKEY ELSE innerIn[i]
KeyOf(side, r) == IF side = "inner" THEN InnerKey(r) ELSE OuterKey(r)
Other(side) == IF side = "inner" THEN "outer" ELSE "inner"

\* ExecQual on a pair of slots; row 0 is the all-NULL slot, on which a
\* comparison yields NULL, that is, false
ExecQual(q, o, i) ==
    CASE q = "outer_is_1" -> OuterKey(o) = 1
      [] q = "inner_is_1" -> InnerKey(i) = 1
      [] OTHER -> TRUE

\* the hash clauses: strict equality of the two join keys
HashClauses(a, b) == a # NULLKEY /\ b # NULLKEY /\ a = b

\* the hash of a non-null key (the hash function is the key type's own; any
\* function of the key serves, this one sends the keys to distinct values)
HashOf(k) == (k * 7) % 16

\* ExecHashGetHashValue: <<computed, hashvalue>>; a NULL key hashes to 0 when
\* nulls are kept and is rejected otherwise
ExecHashGetHashValue(k, keep_nulls) ==
    IF k = NULLKEY
    THEN (IF keep_nulls THEN <<TRUE, 0>> ELSE <<FALSE, 0>>)
    ELSE <<TRUE, HashOf(k)>>

(***************************************************************************)
(* Hash tables (nodeHash.c), single batch.                                 *)
(***************************************************************************)
\* a NULL HashJoinTable pointer: no table
NULLTABLE == [nbuckets |-> 0, keepNulls |-> FALSE, buckets |-> <<>>, matched |-> {}]

\* ExecHashTableCreate: nbuckets empty chains; keepNulls as passed by the caller
ExecHashTableCreate(nb, keepNulls) ==
    [nbuckets |-> nb, keepNulls |-> keepNulls,
     buckets |-> [b \in 0..(nb - 1) |-> <<>>], matched |-> {}]

\* ExecHashGetBucketAndBatch: hash mod nbuckets (the batch is always 0)
ExecHashGetBucketAndBatch(table, hashvalue) == hashvalue % table.nbuckets

\* ExecHashTableInsert: the new tuple becomes the head of its bucket chain
ExecHashTableInsert(table, r, hashvalue) ==
    LET b == ExecHashGetBucketAndBatch(table, hashvalue)
    IN [table EXCEPT !.buckets[b] = <<[row |-> r, hashvalue |-> hashvalue]>> \o @]

\* HeapTupleHeaderSetMatch on a stored tuple
HeapTupleHeaderSetMatch(table, r) == [table EXCEPT !.matched = @ \cup {r}]

\* the tuples that follow tuple cur in a chain (the whole chain for cur = NULL)
ChainAfter(chain, cur) ==
    IF cur = 0 THEN chain
    ELSE LET at == {k \in 1..Len(chain) : chain[k].row = cur}
         IN IF at = {} THEN <<>>
            ELSE SubSeq(chain, (CHOOSE k \in at : TRUE) + 1, Len(chain))

\* the tuple at the first of the positions hits of a chain, 0 if there is none
FirstIn(chain, hits) ==
    IF hits = {} THEN 0
    ELSE chain[CHOOSE k \in hits : \A j \in hits : k <= j].row

\* ExecScanHashBucket: the next tuple of bucket bucketno after cur whose hash
\* value equals hashvalue and which passes the hash clauses against probeKey
ExecScanHashBucket(table, side, bucketno, hashvalue, cur, probeKey) ==
    LET chain == ChainAfter(table.buckets[bucketno], cur)
    IN FirstIn(chain, {k \in 1..Len(chain) :
                          /\ chain[k].hashvalue = hashvalue
                          /\ HashClauses(KeyOf(side, chain[k].row), probeKey)})

\* the bucket whose chain holds tuple r
BucketOfRow(table, r) ==
    CHOOSE b \in 0..(table.nbuckets - 1) :
        \E k \in 1..Len(table.buckets[b]) : table.buckets[b][k].row = r

\* chains of buckets from..nbuckets-1, concatenated
RECURSIVE ChainsFrom(_, _)
ChainsFrom(table, from) ==
    IF from >= table.nbuckets THEN <<>>
    ELSE table.buckets[from] \o ChainsFrom(table, from + 1)

\* ExecScanHashTableForUnmatched / ExecScanOutHashTableForUnmatched: resume
\* after cur (in bucket curBucketNo-1), then buckets curBucketNo.., and stop at
\* the first tuple whose match flag is clear.  <<row, new hj_CurBucketNo>>
ExecScanHashTableForUnmatched(table, curBucketNo, cur) ==
    LET rest == (IF cur = 0 THEN <<>>
                 ELSE ChainAfter(table.buckets[curBucketNo - 1], cur))
                \o ChainsFrom(table, curBucketNo)
        r == FirstIn(rest, {k \in 1..Len(rest) : rest[k].row \notin table.matched})
    IN IF r = 0 THEN <<0, table.nbuckets>> ELSE <<r, BucketOfRow(table, r) + 1>>

\* rows stored in a table
StoredRows(table) ==
    UNION {{table.buckets[b][k].row : k \in 1..Len(table.buckets[b])} :
                  b \in 0..(table.nbuckets - 1)}

(***************************************************************************)
(* The producers and the Hash nodes.                                       *)
(***************************************************************************)
InputOf(side) == IF side = "inner" THEN innerIn ELSE outerIn

\* the rows of a producer the running backend sees, in order: all of them for
\* the leader alone, its share of the partial scan for a parallel worker
RECURSIVE RowsFrom(_, _)
RowsFrom(side, k) ==
    IF k > Len(InputOf(side)) THEN <<>>
    ELSE (IF worker = 0 \/ share[side][k] = worker THEN <<k>> ELSE <<>>)
         \o RowsFrom(side, k + 1)
Visible(side) == RowsFrom(side, 1)

\* ExecProcNode on the child of a Hash node after n earlier calls: the next
\* row, 0 at end-of-stream
ProducerNext(side, n) == IF n < Len(Visible(side)) THEN Visible(side)[n + 1] ELSE 0

\* ExecProcNode on a Hash node (ExecHash as changed for the symmetric join):
\* fetch the next row of the child and, unless its key is NULL and the table
\* drops NULL keys, put it into the node's own table.
\* [row, table, hash]: the row returned, the table and the HashState after it
ExecHash(side, n, table, hstate) ==
    LET r == ProducerNext(side, n)
        hv == ExecHashGetHashValue(KeyOf(side, r), table.keepNulls)
    IN IF r = 0
       THEN [row |-> 0, table |-> table, hash |-> hstate]
       ELSE IF hv[1]
       THEN [row |-> r,
             table |-> ExecHashTableInsert(table, r, hv[2]),
             hash |-> [insertTupleValueEqulNull |-> FALSE, curInsertHashValue |-> hv[2]]]
       ELSE [row |-> r, table |-> table,
             hash |-> [hstate EXCEPT !.insertTupleValueEqulNull = TRUE]]

(***************************************************************************)
(* The caller's side of one call.                                          *)
(***************************************************************************)
\* "return ExecProject(...)": the joined or padded row <<outer, inner>>
ReturnRow(o, i) ==
    /\ running' = FALSE
    /\ ret' = "row"
    /\ out' = Append(out, <<o, i>>)
    /\ eosCalls' = eosCalls

\* "return NULL"
ReturnNull ==
    /\ running' = FALSE
    /\ ret' = "eos"
    /\ out' = out
    /\ eosCalls' = eosCalls + 1

\* the backend dies on a wild pointer
Crash ==
    /\ running' = FALSE
    /\ ret' = "crash"
    /\ out' = out
    /\ eosCalls' = eosCalls

\* "break" / "continue": the for (;;) loop goes round again
LoopAgain == UNCHANGED <<running, ret, out, eosCalls>>

\* the caller invokes the operator (ExecProcNode on the join node)
Call ==
    /\ ~running
    /\ ret \notin {"crash", "error", "cancelled", "ended"}
    /\ eosCalls <= MaxExtraCalls
    /\ running' = TRUE
    /\ ret' = "none"
    /\ UNCHANGED <<plan, extVars, pulls, node, hashNode, tab, econtext, out, eosCalls,
                   rescans, firstOut, backends, parallelVars, spillVars,
                   interruptPending, spins>>

\* CHECK_FOR_INTERRUPTS() passes: no cancel request is pending (with one
\* pending it does not return); and a check that sees no request
InterruptsIgnored == TRUE
CHECK_FOR_INTERRUPTS == ~interruptPending

\* a query that is not parallel: no shares, no shared batches
NoShare == [inner |-> <<>>, outer |-> <<>>]
\* dsm of a backend whose plan is not parallel-aware:
\*   parallel_state  hashNode->parallel_state of the inner Hash node is set
\*                   (ExecHashJoinInitializeDSM / ExecHashJoinInitializeWorker)
\*   attached        the sides whose table is attached to the shared state
\*   shutdown        ExecShutdownHashJoin has been called on the node
NODSM == [parallel_state |-> FALSE, attached |-> {}, shutdown |-> FALSE]
NoBatches ==
    /\ batches = <<>>
    /\ distributor = 0
    /\ participant = <<>>
    /\ dsm = NODSM

\* no set-returning function of pg_dirtyread is being called
\* no call of a function of the vector type
\*   build   the source of vector_in that is compiled
\*   text    the cstring given to vector_in
\*   left, right  the two vector arguments of an operator function
\*   fn      the function called, status how the call ended, value its result
NOVEC == [build |-> "none", text |-> <<>>, left |-> <<>>, right |-> <<>>,
          fn |-> "none", status |-> "none", value |-> <<>>]
NOSRF == [heap |-> <<>>, composite |-> TRUE, fn_extra |-> FALSE, rel |-> FALSE,
          scan |-> [open |-> FALSE, pos |-> 0], result |-> "none",
          returned |-> <<>>, endscans |-> 0, closes |-> 0]

\* a BufFile pointer that is NULL, and a query that spills nothing and that
\* nobody cancels
NOFILE == [open |-> FALSE, words |-> <<>>, pos |-> 0]
NOTRACE == [saved |-> <<>>, loaded |-> <<>>, status |-> "none", io |-> "ok",
            closed |-> 0, newbatches |-> 0]
NOHASHTABLE == [nbatch |-> 0]
NoSpill ==
    /\ batchFile = NOFILE
    /\ hashTupleSlot = 0
    /\ spillTrace = NOTRACE
    /\ hashtable = NOHASHTABLE
    /\ interruptPending = FALSE
    /\ srf = NOSRF
    /\ vec = NOVEC
    /\ spins = 0

(***************************************************************************)
(* nodeSymHashjoin.c                                                       *)
(***************************************************************************)
\* variants of the two macros, to show what the fill properties rest on:
\* an operator that never fills the outer side, and one that reads the wrong
\* slot for the inner side
SymFillOuterNever(n) == FALSE
SymFillInnerWrongSlot(n) == n.hj_NullInnerTupleSlot

SymFillOuter(n) == n.hj_NullInnerTupleSlot
SymFillInner(n) == n.hj_NullOuterTupleSlot

\* ExecInitSymHashJoin: the HashJoinState of a plan with join type jt
\* (single_match: the plans of the model have inner_unique false)
ExecInitSymHashJoin(jt) ==
    [hj_JoinState |-> SYM_HJ_BUILD_HASHTABLE,
     jointype |-> jt,
     single_match |-> (jt = "JOIN_SEMI"),
     hj_NullInnerTupleSlot |-> jt \in {"JOIN_LEFT", "JOIN_FULL"},
     hj_NullOuterTupleSlot |-> jt \in {"JOIN_RIGHT", "JOIN_FULL"},
     hj_CurHashValue |-> 0, hj_CurOutHashValue |-> 0, hj_CurBucketNo |-> 0,
     hj_CurTuple |-> 0, hj_CurOutTuple |-> 0,
     fillInnerTableFinished |-> FALSE, fillOuterTableFinished |-> FALSE,
     firstFill |-> TRUE, innerTupleNull |-> FALSE, outerTupleNull |-> FALSE,
     scanBucket |-> FALSE]

SymRunning(state) ==
    impl = "sym" /\ running /\ CHECK_FOR_INTERRUPTS /\ node.hj_JoinState = state

\* case HJ_BUILD_HASHTABLE
SymBuildHashTable ==
    /\ SymRunning(SYM_HJ_BUILD_HASHTABLE)
    /\ \E layout \in BucketLayouts :
          tab' = [inner |-> ExecHashTableCreate(layout[1], SymFillInner(node)),
                  outer |-> ExecHashTableCreate(layout[2], SymFillOuter(node))]
    /\ node' = [node EXCEPT !.hj_JoinState = SYM_HJ_NEED_NEW_INNER]
    /\ LoopAgain
    /\ UNCHANGED <<plan, extVars, pulls, hashNode, econtext, rescans, firstOut, backends, parallelVars, spillVars,
                   interruptPending, spins>>

\* the state a side goes to when it finds itself or its producer exhausted
\* while the other side is not
SymOtherSide(side) ==
    IF side = "inner" THEN SYM_HJ_NEED_NEW_OUTER ELSE SYM_HJ_NEED_NEW_INNER
SymScanState(side) ==
    IF side = "inner" THEN SYM_HJ_SCAN_OUTER_BUCKET ELSE SYM_HJ_SCAN_INNER_BUCKET
\* variant: the inner producer is never seen as exhausted
SymDoneOuterOnly(n, side) == side = "outer" /\ n.outerTupleNull

SymDone(n, side) == IF side = "inner" THEN n.innerTupleNull ELSE n.outerTupleNull
SymMarkDone(n, side) ==
    IF side = "inner" THEN [n EXCEPT !.innerTupleNull = TRUE]
    ELSE [n EXCEPT !.outerTupleNull = TRUE]

\* the state entered after a pulled row whose key is NULL (it was not put
\* into the table, or its hash value cannot be computed)
SymAfterNullKey(side) == SymOtherSide(side)

\* the cursor fields set before the scan of the opposite table
SymStartScan(n, side, hashvalue) ==
    IF side = "inner"
    THEN [n EXCEPT !.hj_CurOutHashValue = hashvalue,
                   !.hj_CurBucketNo = ExecHashGetBucketAndBatch(tab.outer, hashvalue),
                   !.hj_CurOutTuple = 0,
                   !.hj_JoinState = SYM_HJ_SCAN_OUTER_BUCKET]
    ELSE [n EXCEPT !.hj_CurHashValue = hashvalue,
                   !.hj_CurBucketNo = ExecHashGetBucketAndBatch(tab.inner, hashvalue),
                   !.hj_CurTuple = 0,
                   !.hj_JoinState = SYM_HJ_SCAN_INNER_BUCKET]

\* case HJ_NEED_NEW_INNER (side = "inner") and case HJ_NEED_NEW_OUTER
SymNeedNew(side) ==
    /\ SymRunning(IF side = "inner" THEN SYM_HJ_NEED_NEW_INNER ELSE SYM_HJ_NEED_NEW_OUTER)
    /\ IF SymDone(node, side)
       THEN /\ node' = [node EXCEPT !.hj_JoinState =
                           IF SymDone(node, Other(side)) THEN SYM_HJ_FILL_TUPLES
                           ELSE SymOtherSide(side)]
            /\ LoopAgain
            /\ UNCHANGED <<pulls, hashNode, tab, econtext>>
       ELSE LET h == ExecHash(side, pulls[side], tab[side], hashNode[side])
                hv == ExecHashGetHashValue(KeyOf(side, h.row), FALSE)
            IN /\ pulls' = [pulls EXCEPT ![side] = @ + 1]
               /\ tab' = [tab EXCEPT ![side] = h.table]
               /\ hashNode' = [hashNode EXCEPT ![side] = h.hash]
               /\ IF h.row = 0
                  THEN /\ econtext' = econtext
                       /\ IF ~SymDone(node, Other(side))
                          THEN /\ node' = [SymMarkDone(node, side) EXCEPT
                                              !.hj_JoinState = SymOtherSide(side)]
                               /\ LoopAgain
                          ELSE IF SymFillInner(node) \/ SymFillOuter(node)
                          THEN /\ node' = [SymMarkDone(node, side) EXCEPT
                                              !.hj_JoinState = SYM_HJ_FILL_TUPLES]
                               /\ LoopAgain
                          ELSE /\ node' = SymMarkDone(node, side)
                               /\ ReturnNull
                  ELSE IF h.hash.insertTupleValueEqulNull
                  THEN /\ node' = [node EXCEPT !.hj_JoinState = SymAfterNullKey(side)]
                       /\ econtext' = econtext
                       /\ LoopAgain
                  ELSE IF hv[1]
                  THEN /\ node' = SymStartScan(node, side, hv[2])
                       /\ econtext' = IF side = "inner"
                                      THEN [outertuple |-> h.row, innertuple |-> h.row]
                                      ELSE [econtext EXCEPT !.outertuple = h.row]
                       /\ LoopAgain
                  ELSE /\ node' = [node EXCEPT !.hj_JoinState = SymAfterNullKey(side)]
                       /\ econtext' = [econtext EXCEPT !.outertuple = 0]
                       /\ LoopAgain
    /\ UNCHANGED <<plan, extVars, rescans, firstOut, backends, parallelVars, spillVars,
                   interruptPending, spins>>

SymNeedNewInner == SymNeedNew("inner")
SymNeedNewOuter == SymNeedNew("outer")

\* variant: hash equality alone counts as a match
SymJoinQualSkipped(o, i) == TRUE

\* "joinqual == NULL || ExecQual(joinqual, econtext)"
SymJoinQualOk(o, i) == joinqual = NULLQ \/ ExecQual(joinqual, o, i)

\* "otherqual == NULL || ExecQual(otherqual, econtext)"
SymOtherQualOk(o, i) == otherqual = NULLQ \/ ExecQual(otherqual, o, i)

\* variant: the scan is given up after a match (the single_match shortcut
\* taken for every join)
SymStateLeavesScan(state) ==
    IF state = SYM_HJ_SCAN_OUTER_BUCKET THEN SYM_HJ_NEED_NEW_OUTER
    ELSE SYM_HJ_NEED_NEW_INNER

\* the join state after a successful join qualifier: the single_match
\* shortcut is commented out, the scan state is kept
SymStateAfterMatch(state) == state

\* buckets.unshared[bucketno] for the hash value the Hash node inserted last:
\* the head of that chain, which is the row just pulled (0: an empty chain)
SymPulledTuple(table, hashvalue) ==
    LET chain == table.buckets[ExecHashGetBucketAndBatch(table, hashvalue)]
    IN IF chain = <<>> THEN 0 ELSE chain[1].row

\* case HJ_SCAN_OUTER_BUCKET (side = "inner": an inner row probes the outer
\* table) and case HJ_SCAN_INNER_BUCKET (side = "outer")
SymScanBucket(side) ==
    LET opp == Other(side)
        cur == IF side = "inner" THEN node.hj_CurOutTuple ELSE node.hj_CurTuple
        hashvalue == IF side = "inner" THEN node.hj_CurOutHashValue
                     ELSE node.hj_CurHashValue
        probe == IF side = "inner" THEN econtext.innertuple ELSE econtext.outertuple
        found == ExecScanHashBucket(tab[opp], opp, node.hj_CurBucketNo, hashvalue,
                                    cur, KeyOf(side, probe))
        n1 == [node EXCEPT !.scanBucket = (side = "outer")]
        o == IF side = "inner" THEN found ELSE probe
        i == IF side = "inner" THEN probe ELSE found
    IN /\ SymRunning(SymScanState(side))
       /\ IF found = 0
          THEN /\ node' = [n1 EXCEPT !.hj_JoinState = SymOtherSide(side)]
               /\ UNCHANGED <<tab, econtext>>
               /\ LoopAgain
          ELSE /\ econtext' = [outertuple |-> o, innertuple |-> i]
               /\ IF SymJoinQualOk(o, i)
                  THEN /\ node' = [(IF side = "inner"
                                    THEN [n1 EXCEPT !.hj_CurOutTuple = found]
                                    ELSE [n1 EXCEPT !.hj_CurTuple = found])
                                   EXCEPT !.hj_JoinState = SymStateAfterMatch(@)]
                       /\ tab' = [tab EXCEPT
                             ![opp] = HeapTupleHeaderSetMatch(@, found),
                             ![side] = HeapTupleHeaderSetMatch(@,
                                 SymPulledTuple(@, hashNode[side].curInsertHashValue))]
                       /\ IF SymOtherQualOk(o, i) THEN ReturnRow(o, i) ELSE LoopAgain
                  ELSE /\ node' = (IF side = "inner"
                                   THEN [n1 EXCEPT !.hj_CurOutTuple = found]
                                   ELSE [n1 EXCEPT !.hj_CurTuple = found])
                       /\ tab' = tab
                       /\ LoopAgain
       /\ UNCHANGED <<plan, extVars, pulls, hashNode, rescans, firstOut, backends, parallelVars, spillVars,
                   interruptPending, spins>>

SymScanOuterBucket == SymScanBucket("inner")
SymScanInnerBucket == SymScanBucket("outer")

\* ExecPrepHashTableForUnmatched: the unmatched scans start at bucket 0
ExecPrepHashTableForUnmatched(n) ==
    [n EXCEPT !.hj_CurBucketNo = 0, !.hj_CurTuple = 0, !.hj_CurOutTuple = 0]

\* case HJ_FILL_TUPLES
SymFillTuples ==
    LET n1 == IF node.firstFill
              THEN [ExecPrepHashTableForUnmatched(node) EXCEPT !.firstFill = FALSE]
              ELSE node
        si == ExecScanHashTableForUnmatched(tab.inner, n1.hj_CurBucketNo, n1.hj_CurTuple)
        so == ExecScanHashTableForUnmatched(tab.outer, n1.hj_CurBucketNo, n1.hj_CurOutTuple)
    IN /\ SymRunning(SYM_HJ_FILL_TUPLES)
       /\ IF ~n1.fillInnerTableFinished /\ SymFillInner(n1)
          THEN IF si[1] = 0
               THEN /\ node' = [n1 EXCEPT !.fillInnerTableFinished = TRUE,
                                          !.firstFill = TRUE,
                                          !.hj_CurBucketNo = si[2]]
                    /\ econtext' = econtext
                    /\ LoopAgain
               ELSE /\ node' = [n1 EXCEPT !.hj_CurTuple = si[1],
                                          !.hj_CurBucketNo = si[2]]
                    /\ econtext' = [outertuple |-> 0, innertuple |-> si[1]]
                    /\ IF SymOtherQualOk(0, si[1]) THEN ReturnRow(0, si[1])
                       ELSE LoopAgain
          ELSE IF ~n1.fillOuterTableFinished /\ SymFillOuter(n1)
          THEN IF so[1] = 0
               THEN /\ node' = [n1 EXCEPT !.fillOuterTableFinished = TRUE,
                                          !.hj_CurBucketNo = so[2]]
                    /\ econtext' = econtext
                    /\ ReturnNull
               ELSE /\ node' = [n1 EXCEPT !.hj_CurOutTuple = so[1],
                                          !.hj_CurBucketNo = so[2]]
                    /\ econtext' = [outertuple |-> so[1], innertuple |-> 0]
                    /\ IF SymOtherQualOk(so[1], 0) THEN ReturnRow(so[1], 0)
                       ELSE LoopAgain
          ELSE /\ node' = n1
               /\ econtext' = econtext
               /\ ReturnNull
       /\ UNCHANGED <<plan, extVars, pulls, hashNode, tab, rescans, firstOut, backends, parallelVars, spillVars,
                   interruptPending, spins>>

SymNext ==
    \/ SymBuildHashTable
    \/ SymNeedNewInner
    \/ SymNeedNewOuter
    \/ SymScanOuterBucket
    \/ SymScanInnerBucket
    \/ SymFillTuples

SymInit ==
    /\ impl = "sym"
    /\ planJoinType \in JoinTypes
    /\ \E q \in QualCases : joinqual = q[1] /\ otherqual = q[2]
    /\ outerIn \in Inputs
    /\ innerIn \in Inputs
    /\ pulls = [inner |-> 0, outer |-> 0]
    /\ node = ExecInitSymHashJoin(planJoinType)
    /\ hashNode = [s \in {"inner", "outer"} |->
                     [insertTupleValueEqulNull |-> FALSE, curInsertHashValue |-> 0]]
    /\ tab = [inner |-> NULLTABLE, outer |-> NULLTABLE]
    /\ econtext = [outertuple |-> 0, innertuple |-> 0]
    /\ running = FALSE
    /\ ret = "none"
    /\ out = <<>>
    /\ eosCalls = 0
    /\ rescans = 0
    /\ firstOut = [rows |-> <<>>, drained |-> FALSE]
    /\ share = NoShare
    /\ worker = 0
    /\ outs = <<>>
    /\ NoBatches
    /\ NoSpill

(***************************************************************************)
(* nodeHashjoin.c                                                          *)
(***************************************************************************)
HJ_FILL_OUTER(n) == n.hj_NullInnerTupleSlot
HJ_FILL_INNER(n) == n.hj_NullOuterTupleSlot

\* the join type ExecInitHashJoin works with: "node->join.jointype = JOIN_INNER"
\* overwrites the plan's before the null tuple slots are set up
HJInitJoinType(jt) == "JOIN_INNER"

\* ExecInitHashJoin: the HashJoinState of a plan with join type jt.
\* hj_HashTable, hj_CurHashValue, hj_CurBucketNo and hj_CurTuple are the fields
\* of the one-table operator; makeNode leaves them zero and only
\* ExecReScanHashJoin touches them
ExecInitHashJoin(jt) ==
    LET t == HJInitJoinType(jt)
    IN [hj_JoinState |-> HJ_BUILD_HASHTABLE,
        jointype |-> "JOIN_INNER",
        single_match |-> (jt = "JOIN_SEMI"),
        hj_NullInnerTupleSlot |-> t \in {"JOIN_LEFT", "JOIN_ANTI", "JOIN_FULL"},
        hj_NullOuterTupleSlot |-> t \in {"JOIN_RIGHT", "JOIN_FULL"},
        hj_HashTable |-> 0, hj_CurHashValue |-> 0, hj_CurBucketNo |-> 0,
        hj_CurTuple |-> 0,
        hj_CurHashValue_inner |-> 0, hj_CurHashValue_outer |-> 0,
        hj_CurBucketNo_inner |-> 0, hj_CurBucketNo_outer |-> 0,
        hj_CurTuple_inner |-> 0, hj_CurTuple_outer |-> 0,
        hj_FirstOuterTupleSlot |-> 0, hj_FirstInnerTupleSlot |-> 0,
        hj_MatchedOuter |-> FALSE, hj_MatchedInner |-> FALSE,
        hj_OuterNotEmpty |-> TRUE, hj_InnerNotEmpty |-> TRUE]

HJRunning(state) ==
    impl = "hj" /\ running /\ CHECK_FOR_INTERRUPTS /\ node.hj_JoinState = state

\* ExecHashTableCreate of a Hash node whose parallel_state is set: the table
\* of that side attaches to the shared state.  Only the inner Hash node is
\* given a parallel_state
ExecHashTableCreateShared(d, side) ==
    IF d.parallel_state /\ side = "inner"
    THEN [d EXCEPT !.attached = @ \cup {side}]
    ELSE d

\* case HJ_BUILD_HASHTABLE: the two tables go to hj_HashTable_inner and
\* hj_HashTable_outer; hj_HashTable is left as it was
HJBuildHashTable ==
    /\ HJRunning(HJ_BUILD_HASHTABLE)
    /\ \E layout \in BucketLayouts :
          tab' = [inner |-> ExecHashTableCreate(layout[1], HJ_FILL_INNER(node)),
                  outer |-> ExecHashTableCreate(layout[2], HJ_FILL_OUTER(node))]
    /\ dsm' = ExecHashTableCreateShared(ExecHashTableCreateShared(dsm, "inner"), "outer")
    /\ node' = [node EXCEPT !.hj_JoinState = HJ_NEED_NEW_OUTER]
    /\ LoopAgain
    /\ UNCHANGED <<plan, extVars, pulls, hashNode, econtext, rescans, firstOut, backends,
                   batches, distributor, participant, spillVars,
                   interruptPending, spins>>

\* ExecHashJoinInnerGetTuple / ExecHashJoinOuterGetTuple: run the Hash node
\* until it returns a row whose hash value can be computed, or nothing.
\* [row, hashvalue, n, table, hash]: n = ExecProcNode calls made in all
RECURSIVE HJGetTuple(_, _, _, _, _)
HJGetTuple(side, n, table, hstate, keep_nulls) ==
    LET h == ExecHash(side, n, table, hstate)
        hv == ExecHashGetHashValue(KeyOf(side, h.row), keep_nulls)
    IN IF h.row = 0 \/ hv[1]
       THEN [row |-> h.row, hashvalue |-> hv[2], n |-> n + 1,
             table |-> h.table, hash |-> h.hash]
       ELSE HJGetTuple(side, n + 1, h.table, h.hash, keep_nulls)

\* the expression context after a GetTuple that ran out of rows: the slot of
\* the side holds the last row whose hash value was tried, if there was one
HJLastSeen(side, before, after) ==
    IF after - 1 > before
    THEN (IF side = "inner"
          THEN [econtext EXCEPT !.innertuple = ProducerNext(side, after - 2)]
          ELSE [econtext EXCEPT !.outertuple = ProducerNext(side, after - 2)])
    ELSE econtext

\* variant: a side is never taken to be exhausted
HJNotEmptyAlways(n, side) == TRUE

HJNotEmpty(n, side) ==
    IF side = "inner" THEN n.hj_InnerNotEmpty ELSE n.hj_OuterNotEmpty
HJSetNotEmpty(n, side, v) ==
    IF side = "inner" THEN [n EXCEPT !.hj_InnerNotEmpty = v]
    ELSE [n EXCEPT !.hj_OuterNotEmpty = v]
HJNeedNewState(side) ==
    IF side = "inner" THEN HJ_NEED_NEW_INNER ELSE HJ_NEED_NEW_OUTER
HJScanState(side) ==
    IF side = "inner" THEN HJ_SCAN_OUTER_BUCKET ELSE HJ_SCAN_INNER_BUCKET

\* the cursor fields set for the row just pulled: its hash value, the bucket
\* number ExecHashGetBucketAndBatch derives from the row's OWN table, and a
\* NULL current tuple
HJStartScan(n, side, hashvalue) ==
    IF side = "inner"
    THEN [n EXCEPT !.hj_MatchedInner = FALSE,
                   !.hj_CurHashValue_inner = hashvalue,
                   !.hj_CurBucketNo_inner = ExecHashGetBucketAndBatch(tab.inner, hashvalue),
                   !.hj_CurTuple_inner = 0,
                   !.hj_JoinState = HJ_SCAN_OUTER_BUCKET]
    ELSE [n EXCEPT !.hj_MatchedOuter = FALSE,
                   !.hj_CurHashValue_outer = hashvalue,
                   !.hj_CurBucketNo_outer = ExecHashGetBucketAndBatch(tab.outer, hashvalue),
                   !.hj_CurTuple_outer = 0,
                   !.hj_JoinState = HJ_SCAN_INNER_BUCKET]

\* case HJ_NEED_NEW_INNER (side = "inner") and case HJ_NEED_NEW_OUTER
HJNeedNew(side) ==
    /\ HJRunning(HJNeedNewState(side))
    /\ IF ~HJNotEmpty(node, side)
       THEN /\ UNCHANGED <<pulls, hashNode, tab, econtext>>
            /\ IF HJNotEmpty(node, Other(side))
               THEN /\ node' = [node EXCEPT !.hj_JoinState = HJNeedNewState(Other(side))]
                    /\ LoopAgain
               ELSE /\ node' = node
                    /\ ReturnNull
       ELSE LET g == HJGetTuple(side, pulls[side], tab[side], hashNode[side],
                                IF side = "inner" THEN HJ_FILL_INNER(node)
                                ELSE HJ_FILL_OUTER(node))
            IN /\ pulls' = [pulls EXCEPT ![side] = g.n]
               /\ tab' = [tab EXCEPT ![side] = g.table]
               /\ hashNode' = [hashNode EXCEPT ![side] = g.hash]
               /\ IF g.row = 0
                  THEN /\ econtext' = HJLastSeen(side, pulls[side], g.n)
                       /\ IF HJNotEmpty(node, Other(side))
                          THEN /\ node' = [HJSetNotEmpty(node, side, FALSE) EXCEPT
                                              !.hj_JoinState = HJNeedNewState(Other(side))]
                               /\ LoopAgain
                          ELSE /\ node' = HJSetNotEmpty(node, side, FALSE)
                               /\ ReturnNull
                  ELSE /\ econtext' = IF side = "inner"
                                      THEN [econtext EXCEPT !.innertuple = g.row]
                                      ELSE [econtext EXCEPT !.outertuple = g.row]
                       /\ node' = HJStartScan(HJSetNotEmpty(node, side, TRUE), side,
                                              g.hashvalue)
                       /\ LoopAgain
    /\ UNCHANGED <<plan, extVars, rescans, firstOut, backends, parallelVars, spillVars,
                   interruptPending, spins>>

HJNeedNewInner == HJNeedNew("inner")
HJNeedNewOuter == HJNeedNew("outer")

\* "joinqual == NULL || ExecQual(joinqual, econtext)"
HJJoinQualOk(o, i) == joinqual = NULLQ \/ ExecQual(joinqual, o, i)

\* "otherqual == NULL || ExecQual(otherqual, econtext)"
HJOtherQualOk(o, i) == otherqual = NULLQ \/ ExecQual(otherqual, o, i)

\* the join state set when the join qualifier succeeds: the scan of the
\* bucket is given up and the next row is pulled from the other side
HJStateAfterMatch(side) == HJNeedNewState(Other(side))

\* the join state when ExecScanHashBucket finds no further candidate
HJStateAfterScan(side) == HJNeedNewState(Other(side))

\* what a match does to the table scanned: "node->hj_MatchedInner = true" /
\* "node->hj_MatchedOuter = true" set a flag of the node and leave the header
\* of the stored tuple alone; and a match that sets the header's bit
HJMarkMatchInHeader(table, r) == HeapTupleHeaderSetMatch(table, r)
HJMarkMatch(table, r) == table

\* case HJ_SCAN_OUTER_BUCKET (side = "inner": ExecScanHashBucket(.., 2) runs
\* the inner row's cursor over the outer table) and case HJ_SCAN_INNER_BUCKET
\* (side = "outer", ExecScanHashBucket(.., 1)).  A bucket number beyond the
\* scanned table's array reads a wild chain pointer: the backend dies, or the
\* word read is NULL and the bucket looks empty
HJScanBucket(side) ==
    LET opp == Other(side)
        cur == IF side = "inner" THEN node.hj_CurTuple_inner ELSE node.hj_CurTuple_outer
        hashvalue == IF side = "inner" THEN node.hj_CurHashValue_inner
                     ELSE node.hj_CurHashValue_outer
        bucketno == IF side = "inner" THEN node.hj_CurBucketNo_inner
                    ELSE node.hj_CurBucketNo_outer
        probe == IF side = "inner" THEN econtext.innertuple ELSE econtext.outertuple
        inrange == bucketno < tab[opp].nbuckets
        found == IF inrange
                 THEN ExecScanHashBucket(tab[opp], opp, bucketno, hashvalue, cur,
                                         KeyOf(side, probe))
                 ELSE 0
        o == IF side = "inner" THEN found ELSE probe
        i == IF side = "inner" THEN probe ELSE found
        n1 == IF side = "inner" THEN [node EXCEPT !.hj_CurTuple_inner = found]
              ELSE [node EXCEPT !.hj_CurTuple_outer = found]
    IN /\ HJRunning(HJScanState(side))
       /\ \E wild \in (IF inrange THEN {"no"} ELSE {"null", "fault"}) :
            IF wild = "fault"
            THEN /\ Crash
                 /\ UNCHANGED <<node, econtext>>
            ELSE IF found = 0
            THEN /\ node' = [node EXCEPT !.hj_JoinState = HJStateAfterScan(side)]
                 /\ econtext' = econtext
                 /\ LoopAgain
            ELSE /\ econtext' = [outertuple |-> o, innertuple |-> i]
                 /\ IF HJJoinQualOk(o, i)
                    THEN /\ node' = [(IF side = "inner"
                                      THEN [n1 EXCEPT !.hj_MatchedInner = TRUE]
                                      ELSE [n1 EXCEPT !.hj_MatchedOuter = TRUE])
                                     EXCEPT !.hj_JoinState = HJStateAfterMatch(side)]
                         /\ IF HJOtherQualOk(o, i) THEN ReturnRow(o, i) ELSE LoopAgain
                    ELSE /\ node' = n1
                         /\ LoopAgain
       /\ tab' = IF found # 0 /\ HJJoinQualOk(o, i)
                 THEN [tab EXCEPT ![opp] = HJMarkMatch(@, found)]
                 ELSE tab
       /\ UNCHANGED <<plan, extVars, pulls, hashNode, rescans, firstOut, backends, parallelVars,
                      spillVars, interruptPending, spins>>

HJScanOuterBucket == HJScanBucket("inner")
HJScanInnerBucket == HJScanBucket("outer")

\* case HJ_FILL_TUPLES: "return NULL".  No assignment of the file stores
\* HJ_FILL_TUPLES in hj_JoinState, so the case is not a step of HJNext
HJFillTuples ==
    /\ HJRunning(HJ_FILL_TUPLES)
    /\ ReturnNull
    /\ UNCHANGED <<plan, extVars, pulls, node, hashNode, tab, econtext, rescans, firstOut, backends, parallelVars, spillVars,
                   interruptPending, spins>>

HJNext ==
    \/ HJBuildHashTable
    \/ HJNeedNewInner
    \/ HJNeedNewOuter
    \/ HJScanOuterBucket
    \/ HJScanInnerBucket

\* the operator and its Hash nodes as ExecInitNode leaves them
HJFresh ==
    /\ pulls = [inner |-> 0, outer |-> 0]
    /\ node = ExecInitHashJoin(planJoinType)
    /\ hashNode = [s \in {"inner", "outer"} |->
                     [insertTupleValueEqulNull |-> FALSE, curInsertHashValue |-> 0]]
    /\ tab = [inner |-> NULLTABLE, outer |-> NULLTABLE]
    /\ econtext = [outertuple |-> 0, innertuple |-> 0]
    /\ running = FALSE
    /\ ret = "none"
    /\ out = <<>>
    /\ eosCalls = 0
    /\ rescans = 0
    /\ firstOut = [rows |-> <<>>, drained |-> FALSE]

HJInit ==
    /\ impl = "hj"
    /\ planJoinType \in JoinTypes
    /\ \E q \in QualCases : joinqual = q[1] /\ otherqual = q[2]
    /\ outerIn \in Inputs
    /\ innerIn \in Inputs
    /\ HJFresh
    /\ share = NoShare
    /\ worker = 0
    /\ outs = <<>>
    /\ NoBatches
    /\ NoSpill

(***************************************************************************)
(* ExecReScanHashJoin                                                      *)
(***************************************************************************)
\* "if (node->hj_HashTable != NULL)": the single-batch branch that keeps the
\* table (the plans of the model have no parameters, chgParam is NULL)
HJReScanTable(n) ==
    IF n.hj_HashTable # 0
    THEN [n EXCEPT !.hj_OuterNotEmpty = FALSE, !.hj_JoinState = HJ_NEED_NEW_OUTER]
    ELSE n

\* "Always reset intra-tuple state"
HJReScanState(n) ==
    [n EXCEPT !.hj_CurHashValue = 0, !.hj_CurBucketNo = 0, !.hj_CurTuple = 0,
              !.hj_MatchedOuter = FALSE, !.hj_FirstOuterTupleSlot = 0]

\* ExecReScanHashJoin, called between two calls of the operator.
\* ExecReScan(lefttree) restarts the outer producer; the right tree is rescanned
\* only in the branch that destroys hj_HashTable
ExecReScanHashJoin ==
    /\ impl = "hj"
    /\ ~running
    /\ ret \in {"row", "eos"}
    /\ rescans < MaxRescans
    /\ node' = HJReScanState(HJReScanTable(node))
    /\ pulls' = [pulls EXCEPT !.outer = 0]
    /\ rescans' = rescans + 1
    /\ firstOut' = [rows |-> out, drained |-> eosCalls >= 1]
    /\ out' = <<>>
    /\ eosCalls' = 0
    /\ ret' = "none"
    /\ UNCHANGED <<plan, extVars, hashNode, tab, econtext, running, backends, parallelVars, spillVars,
                   interruptPending, spins>>

\* ExecEndHashJoin: "if (node->hj_HashTable_inner) { ExecHashTableDestroy(...);
\* node->hj_HashTable_inner = NULL; }" and the same for the outer table
ExecEndHashJoin ==
    /\ impl = "hj"
    /\ ~running
    /\ ret \in {"none", "row", "eos"}
    /\ tab' = [s \in {"inner", "outer"} |-> NULLTABLE]
    /\ ret' = "ended"
    /\ UNCHANGED <<plan, extVars, pulls, node, hashNode, econtext, running, out, eosCalls, rescans,
                   firstOut, backends, parallelVars, spillVars, interruptPending, spins>>

NextRescan == Call \/ HJNext \/ ExecReScanHashJoin \/ ExecEndHashJoin
SpecRescan == HJInit /\ [][NextRescan]_vars

(***************************************************************************)
(* ExecShutdownHashJoin on the two-table operator.                         *)
(***************************************************************************)
\* ExecHashTableDetachBatch and ExecHashTableDetach on the table the node
\* holds in hj_HashTable: the backend leaves the shared state
ExecHashTableDetach(d) == [d EXCEPT !.attached = {}]

\* "if (node->hj_HashTable) { ExecHashTableDetachBatch(...);
\* ExecHashTableDetach(...); }", called between two calls of the operator
HJShutdown ==
    /\ impl = "hj"
    /\ ~running
    /\ ~dsm.shutdown
    /\ dsm' = [(IF node.hj_HashTable # 0 THEN ExecHashTableDetach(dsm) ELSE dsm)
                  EXCEPT !.shutdown = TRUE]
    /\ UNCHANGED <<plan, extVars, pulls, node, hashNode, tab, econtext, running, ret, out,
                   eosCalls, rescans, firstOut, backends, batches, distributor,
                   participant, spillVars, interruptPending, spins>>

\* a backend of a parallel query, or of one that is not parallel-aware
ShutdownInit ==
    /\ impl = "hj"
    /\ planJoinType = "JOIN_INNER"
    /\ joinqual = NULLQ
    /\ otherqual = NULLQ
    /\ outerIn \in Inputs
    /\ innerIn \in Inputs
    /\ HJFresh
    /\ share = NoShare
    /\ worker = 0
    /\ outs = <<>>
    /\ batches = <<>>
    /\ distributor = 0
    /\ participant = <<>>
    /\ \E ps \in BOOLEAN : dsm = [NODSM EXCEPT !.parallel_state = ps]
    /\ NoSpill

NextShutdown == Call \/ HJNext \/ HJShutdown
SpecShutdown == ShutdownInit /\ [][NextShutdown]_vars

(***************************************************************************)
(* ExecHashJoin against ExecParallelHashJoin.  Both call ExecHashJoinImpl, *)
(* which does not read its "parallel" argument: every backend creates its  *)
(* own two tables and joins the rows its own producers deliver.  The       *)
(* backends share no state in the operator, so they are run one after the  *)
(* other: the leader alone over the whole inputs first, then each worker   *)
(* of the parallel query over its shares.                                  *)
(***************************************************************************)
Shares(input) == [1..Len(input) -> 1..NWorkers]

ParInit ==
    /\ impl = "hj"
    /\ planJoinType = "JOIN_INNER"
    /\ joinqual = NULLQ
    /\ otherqual = NULLQ
    /\ outerIn \in Inputs
    /\ innerIn \in Inputs
    /\ share \in [inner : Shares(innerIn), outer : Shares(outerIn)]
    /\ HJFresh
    /\ worker = 0
    /\ outs = <<>>
    /\ NoBatches
    /\ NoSpill

\* the running backend has drained its operator; the next backend starts with
\* its own HashJoinState (ExecInitHashJoin in that backend)
NextWorker ==
    /\ impl = "hj"
    /\ ~running
    /\ eosCalls >= 1
    /\ worker < NWorkers
    /\ outs' = Append(outs, [rows |-> out,
                             nbuckets |-> <<tab.inner.nbuckets, tab.outer.nbuckets>>])
    /\ worker' = worker + 1
    /\ pulls' = [inner |-> 0, outer |-> 0]
    /\ node' = ExecInitHashJoin(planJoinType)
    /\ hashNode' = [s \in {"inner", "outer"} |->
                      [insertTupleValueEqulNull |-> FALSE, curInsertHashValue |-> 0]]
    /\ tab' = [inner |-> NULLTABLE, outer |-> NULLTABLE]
    /\ econtext' = [outertuple |-> 0, innertuple |-> 0]
    /\ ret' = "none"
    /\ out' = <<>>
    /\ eosCalls' = 0
    /\ UNCHANGED <<plan, extVars, running, rescans, firstOut, parallelVars, spillVars,
                   interruptPending, spins>>

NextPar == Call \/ HJNext \/ NextWorker
SpecPar == ParInit /\ [][NextPar]_vars

(***************************************************************************)
(* ExecParallelHashJoinNewBatch and the per-batch barriers.                *)
(***************************************************************************)
PHJ_BATCH_ELECTING == 0
PHJ_BATCH_ALLOCATING == 1
PHJ_BATCH_LOADING == 2
PHJ_BATCH_PROBING == 3
PHJ_BATCH_DONE == 4

Workers == 1..NWorkers
BatchNos == 0..(NBatch - 1)

\* BarrierInit
BarrierInit ==
    [phase |-> PHJ_BATCH_ELECTING, participants |-> 0, arrived |-> 0, elected |-> 0]

\* a ParallelHashJoinBatch: its batch_barrier in phase ph, and
\*   allocs  the calls of ExecParallelHashTableAlloc made for the batch
\*   store   the tuples left in the batch's shared inner tuplestore
\*   loaded  the tuples in the batch's shared hash table
SharedBatch(ph, allocs, store, loaded) ==
    [phase |-> ph, participants |-> BarrierInit.participants,
     arrived |-> BarrierInit.arrived, elected |-> ph,
     allocs |-> allocs, store |-> store, loaded |-> loaded]

\* BarrierAttach: one more participant; the caller reads the phase before
BarrierAttach(barrier) == [barrier EXCEPT !.participants = @ + 1]

\* the arrival half of BarrierArriveAndWait: the last participant to arrive
\* advances the phase and releases the others, any other starts to wait
BarrierArrive(barrier) ==
    IF barrier.arrived + 1 = barrier.participants
    THEN [barrier EXCEPT !.arrived = 0, !.phase = @ + 1, !.elected = barrier.phase + 1]
    ELSE [barrier EXCEPT !.arrived = @ + 1]

\* the waking half of BarrierArriveAndWait begun in phase start: the first
\* to wake after a phase that a detaching participant advanced is elected
BarrierWakeElected(barrier, start) == barrier.elected # start + 1
BarrierWake(barrier, start) == [barrier EXCEPT !.elected = start + 1]

\* variant: every participant that passes the election allocates
NBAllocatesAlways(elected) == TRUE

\* "if (BarrierArriveAndWait(batch_barrier, WAIT_EVENT_HASH_BATCH_ELECTING))
\* ExecParallelHashTableAlloc(hashtable, batchno);"
NBAllocates(elected) == elected

\* BarrierDetachImpl: leave, and advance the phase if every participant left
\* behind has arrived (or, when arriving, if none is left)
BarrierDetachImpl(barrier, arrive) ==
    LET left == barrier.participants - 1
    IN IF (arrive \/ left > 0) /\ barrier.arrived = left
       THEN [barrier EXCEPT !.participants = left, !.arrived = 0, !.phase = @ + 1]
       ELSE [barrier EXCEPT !.participants = left]
BarrierArriveAndDetach(barrier) == BarrierDetachImpl(barrier, TRUE)
BarrierDetach(barrier) == BarrierDetachImpl(barrier, FALSE)

\* ExecHashTableDetachBatch on batch b: arrive at the batch barrier and
\* detach from it without waiting
ExecHashTableDetachBatch(bs, b) == [bs EXCEPT ![b] = BarrierArriveAndDetach(@)]

\* variant: the PROBING case waits at the barrier as well
NBWaitsAlsoProbing(phase) == phase <= PHJ_BATCH_PROBING

\* the phases whose case in the switch calls BarrierArriveAndWait
NBWaitsIn(phase) ==
    phase \in {PHJ_BATCH_ELECTING, PHJ_BATCH_ALLOCATING, PHJ_BATCH_LOADING}

\* a worker between two calls: not in the function and attached to no batch
\*   pc       "out": outside the function, "search": at the head of the
\*            do-loop, "case": attached, at "case at:" of the switch,
\*            "wait": asleep in BarrierArriveAndWait begun in phase at,
\*            "alloc": about to call ExecParallelHashTableAlloc,
\*            "load": at the head of the loading loop, "insert": holding a
\*            tuple that sts_parallel_scan_next returned
\*   result   what the last call returned: "none" | "true" | "false"
\*   batchesNull  hashtable->batches == NULL
\*   done     hashtable->batches[b].done, the worker's own flags
\*   examined the batch numbers whose done flag the current call has tested
\*   waited   the current call has called BarrierArriveAndWait
\*   allDone  every done flag was set when the current call began its search
\*   ticket   the value pg_atomic_fetch_add_u32 returned to the worker's
\*            latest search, -1 before the first
\*   found    the phase BarrierAttach returned to the current call's latest
\*            attachment, -1 if it has not attached
\*   cases    the phases whose case of the switch that attachment has run
\*   allocated  that attachment has called ExecParallelHashTableAlloc
NewParticipant ==
    [pc |-> "out", result |-> "none", curbatch |-> -1, batchno |-> 0,
     start_batchno |-> 0, at |-> 0, batchesNull |-> FALSE,
     done |-> [b \in BatchNos |-> FALSE],
     examined |-> <<>>, waited |-> FALSE, allDone |-> FALSE, ticket |-> -1,
     found |-> -1, cases |-> {}, allocated |-> FALSE]

\* the shared state once the build is over (PHJ_BUILD_DONE): no worker is
\* attached to a batch yet; batch 0, loaded during the build, starts out in
\* PHJ_BATCH_PROBING, every other batch in PHJ_BATCH_ELECTING
BatchInit ==
    /\ impl = "newbatch"
    /\ planJoinType = "JOIN_INNER"
    /\ joinqual = NULLQ
    /\ otherqual = NULLQ
    /\ outerIn = <<>>
    /\ innerIn = <<>>
    /\ share = NoShare
    /\ pulls = [inner |-> 0, outer |-> 0]
    /\ node = ExecInitHashJoin(planJoinType)
    /\ hashNode = [s \in {"inner", "outer"} |->
                     [insertTupleValueEqulNull |-> FALSE, curInsertHashValue |-> 0]]
    /\ tab = [inner |-> NULLTABLE, outer |-> NULLTABLE]
    /\ econtext = [outertuple |-> 0, innertuple |-> 0]
    /\ running = FALSE
    /\ ret = "none"
    /\ out = <<>>
    /\ eosCalls = 0
    /\ rescans = 0
    /\ firstOut = [rows |-> <<>>, drained |-> FALSE]
    /\ worker = 0
    /\ outs = <<>>
    /\ batches = [b \in BatchNos |->
                     IF b = 0 THEN SharedBatch(PHJ_BATCH_PROBING, 1, 0, BatchRows)
                     ELSE SharedBatch(PHJ_BATCH_ELECTING, 0, BatchRows, 0)]
    /\ distributor = 0
    /\ participant = [w \in Workers |-> NewParticipant]
    /\ dsm = NODSM
    /\ NoSpill

BatchFrame ==
    UNCHANGED <<plan, extVars, pulls, node, hashNode, tab, econtext, running, ret, out,
                eosCalls, rescans, firstOut, backends, spillVars, interruptPending, spins,
                dsm>>

\* a do-loop that does not stop where it began
NBAdvanceNoStop(p) ==
    [p EXCEPT !.batchno = (p.batchno + 1) % NBatch, !.pc = "search"]

\* "batchno = (batchno + 1) % hashtable->nbatch; while (batchno != start_batchno)":
\* the participant after the step to the next batch; "return false" when the
\* search is back where it began
NBAdvance(p) ==
    LET nxt == (p.batchno + 1) % NBatch
    IN IF nxt # p.start_batchno
       THEN [p EXCEPT !.batchno = nxt, !.pc = "search"]
       ELSE [p EXCEPT !.batchno = nxt, !.pc = "out", !.result = "false"]

\* variant: every search starts at batch 0
NBStartZero(counter) == 0

\* "batchno = start_batchno = pg_atomic_fetch_add_u32(&hashtable->
\* parallel_state->distributor, 1) % hashtable->nbatch", counter being the
\* value fetched
NBStart(counter) == counter % NBatch

\* variant: the worker stays attached to the batch it leaves
NBEntryStaysAttached(bs, p) == bs

\* "if (hashtable->curbatch >= 0) ... ExecHashTableDetachBatch(hashtable)":
\* the batch barriers after the entry
NBEntryDetach(bs, p) ==
    IF p.curbatch >= 0 THEN ExecHashTableDetachBatch(bs, p.curbatch) ELSE bs

\* variant: the batch the worker leaves is not remembered
NBEntryDoneKept(p) == p.done

\* "if (hashtable->curbatch >= 0) hashtable->batches[hashtable->curbatch].done
\* = true": the worker's done flags after the entry
NBEntryDone(p) ==
    IF p.curbatch >= 0 THEN [p.done EXCEPT ![p.curbatch] = TRUE] ELSE p.done

\* entry of ExecParallelHashJoinNewBatch up to the head of the do-loop
NBEnter(w) ==
    LET p == participant[w]
    IN /\ impl = "newbatch"
       /\ p.pc = "out"
       /\ p.result # "false"
       /\ IF p.batchesNull
          THEN /\ participant' = [participant EXCEPT ![w] =
                     [p EXCEPT !.result = "false", !.examined = <<>>,
                               !.waited = FALSE, !.allDone = FALSE]]
               /\ UNCHANGED <<batches, distributor>>
          ELSE /\ batches' = NBEntryDetach(batches, p)
               /\ distributor' = distributor + 1
               /\ participant' = [participant EXCEPT ![w] =
                     [p EXCEPT !.done = NBEntryDone(p),
                               !.examined = <<>>,
                               !.waited = FALSE,
                               !.found = -1, !.cases = {}, !.allocated = FALSE,
                               !.allDone = \A b \in BatchNos :
                                              b = p.curbatch \/ p.done[b],
                               !.curbatch = -1,
                               !.ticket = distributor,
                               !.batchno = NBStart(distributor),
                               !.start_batchno = NBStart(distributor),
                               !.result = "none",
                               !.pc = "search"]]
       /\ BatchFrame

\* variant: every attachment begins with the election
NBSwitchFromTop(phase) == PHJ_BATCH_ELECTING

\* "switch (BarrierAttach(batch_barrier))": the case the worker enters when
\* BarrierAttach returns phase
NBSwitch(phase) == phase

\* "if (!hashtable->batches[batchno].done)" and BarrierAttach
NBAttach(w) ==
    LET p == participant[w]
    IN /\ impl = "newbatch"
       /\ p.pc = "search"
       /\ IF p.done[p.batchno]
          THEN /\ participant' = [participant EXCEPT ![w] =
                     NBAdvance([p EXCEPT !.examined = Append(@, p.batchno)])]
               /\ batches' = batches
          ELSE /\ batches' = [batches EXCEPT ![p.batchno] = BarrierAttach(@)]
               /\ participant' = [participant EXCEPT ![w] =
                     [p EXCEPT !.pc = "case", !.at = NBSwitch(batches[p.batchno].phase),
                               !.found = batches[p.batchno].phase,
                               !.cases = {}, !.allocated = FALSE,
                               !.examined = Append(@, p.batchno)]]
       /\ UNCHANGED distributor
       /\ BatchFrame

\* one case of the switch, up to the point where the worker falls asleep,
\* falls through to the next case, returns true or goes round the loop
NBCase(w) ==
    LET p == participant[w]
        b == p.batchno
        \* ExecParallelHashTableSetCurrentBatch in the LOADING and PROBING cases
        q == IF p.at >= PHJ_BATCH_LOADING
             THEN [p EXCEPT !.curbatch = b, !.cases = @ \cup {p.at}]
             ELSE [p EXCEPT !.cases = @ \cup {p.at}]
        arrived == BarrierArrive(batches[b])
    IN /\ impl = "newbatch"
       /\ p.pc = "case"
       /\ IF p.at = PHJ_BATCH_LOADING
          THEN \* "Start (or join in) loading tuples."
               /\ batches' = batches
               /\ participant' = [participant EXCEPT ![w] = [q EXCEPT !.pc = "load"]]
          ELSE IF NBWaitsIn(p.at)
          THEN /\ batches' = [batches EXCEPT ![b] = arrived]
               /\ participant' = [participant EXCEPT ![w] =
                     IF arrived.phase # batches[b].phase
                     THEN (IF p.at = PHJ_BATCH_ELECTING /\ NBAllocates(TRUE)
                           THEN [q EXCEPT !.pc = "alloc", !.waited = TRUE]
                           ELSE [q EXCEPT !.at = @ + 1, !.waited = TRUE])
                     ELSE [q EXCEPT !.pc = "wait", !.waited = TRUE]]
          ELSE IF p.at = PHJ_BATCH_PROBING
          THEN /\ batches' = batches
               /\ participant' = [participant EXCEPT ![w] =
                     [q EXCEPT !.pc = "out", !.result = "true"]]
          ELSE IF p.at = PHJ_BATCH_DONE
          THEN /\ batches' = [batches EXCEPT ![b] = BarrierDetach(@)]
               /\ participant' = [participant EXCEPT ![w] =
                     NBAdvance([p EXCEPT !.done[b] = TRUE, !.curbatch = -1,
                                         !.cases = @ \cup {p.at}])]
          ELSE \* default: elog(ERROR, "unexpected batch phase %d")
               /\ batches' = batches
               /\ participant' = [participant EXCEPT ![w] =
                     [p EXCEPT !.pc = "out", !.result = "error"]]
       /\ UNCHANGED distributor
       /\ BatchFrame

\* variant: a worker that finds the store empty goes on without waiting
NBLoadingNoWait(before, after) == TRUE

\* "BarrierArriveAndWait(batch_barrier, WAIT_EVENT_HASH_BATCH_LOADING)": the
\* worker goes on to the PROBING case at once only if its arrival moved the phase
NBLoadingDone(before, after) == after.phase # before.phase

\* one round of "while ((tuple = sts_parallel_scan_next(inner_tuples,
\* &hashvalue)))": take a tuple of the shared store, or end the scan and
\* arrive at the barrier
NBLoad(w) ==
    LET p == participant[w]
        b == p.batchno
        arrived == BarrierArrive(batches[b])
    IN /\ impl = "newbatch"
       /\ p.pc = "load"
       /\ IF batches[b].store > 0
          THEN /\ batches' = [batches EXCEPT ![b].store = @ - 1]
               /\ participant' = [participant EXCEPT ![w] = [p EXCEPT !.pc = "insert"]]
          ELSE /\ batches' = [batches EXCEPT ![b] = arrived]
               /\ participant' = [participant EXCEPT ![w] =
                     IF NBLoadingDone(batches[b], arrived)
                     THEN [p EXCEPT !.pc = "case", !.at = @ + 1, !.waited = TRUE]
                     ELSE [p EXCEPT !.pc = "wait", !.waited = TRUE]]
       /\ UNCHANGED distributor
       /\ BatchFrame

\* ExecForceStoreMinimalTuple and ExecParallelHashTableInsertCurrentBatch
NBInsert(w) ==
    LET p == participant[w]
    IN /\ impl = "newbatch"
       /\ p.pc = "insert"
       /\ batches' = [batches EXCEPT ![p.batchno].loaded = @ + 1]
       /\ participant' = [participant EXCEPT ![w] = [p EXCEPT !.pc = "load"]]
       /\ UNCHANGED distributor
       /\ BatchFrame

\* the sleeping half of BarrierArriveAndWait: woken once the phase has moved
NBWake(w) ==
    LET p == participant[w]
        b == p.batchno
        elected == BarrierWakeElected(batches[b], p.at)
    IN /\ impl = "newbatch"
       /\ p.pc = "wait"
       /\ batches[b].phase # p.at
       /\ batches' = [batches EXCEPT ![b] = BarrierWake(@, p.at)]
       /\ participant' = [participant EXCEPT ![w] =
             IF p.at = PHJ_BATCH_ELECTING /\ NBAllocates(elected)
             THEN [p EXCEPT !.pc = "alloc"]
             ELSE [p EXCEPT !.pc = "case", !.at = @ + 1]]
       /\ UNCHANGED distributor
       /\ BatchFrame

\* ExecParallelHashTableAlloc(hashtable, batchno) by the elected worker, which
\* then falls through to case PHJ_BATCH_ALLOCATING
NBAlloc(w) ==
    LET p == participant[w]
    IN /\ impl = "newbatch"
       /\ p.pc = "alloc"
       /\ batches' = [batches EXCEPT ![p.batchno].allocs = @ + 1]
       /\ participant' = [participant EXCEPT ![w] =
             [p EXCEPT !.pc = "case", !.at = PHJ_BATCH_ALLOCATING, !.allocated = TRUE]]
       /\ UNCHANGED distributor
       /\ BatchFrame

\* ExecShutdownHashJoin in a worker that is outside the function:
\* ExecHashTableDetachBatch, then ExecHashTableDetach frees the batch array
ExecShutdownHashJoin(w) ==
    LET p == participant[w]
    IN /\ impl = "newbatch"
       /\ p.pc = "out"
       /\ ~p.batchesNull
       /\ batches' = IF p.curbatch >= 0
                     THEN ExecHashTableDetachBatch(batches, p.curbatch)
                     ELSE batches
       /\ participant' = [participant EXCEPT ![w] =
             [p EXCEPT !.curbatch = -1, !.batchesNull = TRUE, !.result = "none"]]
       /\ UNCHANGED distributor
       /\ BatchFrame

NextBatch ==
    \E w \in Workers :
        \/ NBEnter(w)
        \/ NBAttach(w)
        \/ NBCase(w)
        \/ NBWake(w)
        \/ NBAlloc(w)
        \/ NBLoad(w)
        \/ NBInsert(w)
        \/ ExecShutdownHashJoin(w)
SpecBatch == BatchInit /\ [][NextBatch]_vars

\* the workers of a join that runs to its end: each worker is a process of
\* its own that goes on calling ExecParallelHashJoinNewBatch until it gets
\* false, and is not shut down before
WorkerStep(w) ==
    \/ NBEnter(w)
    \/ NBAttach(w)
    \/ NBCase(w)
    \/ NBWake(w)
    \/ NBAlloc(w)
    \/ NBLoad(w)
    \/ NBInsert(w)
NextBatchLive == \E w \in Workers : WorkerStep(w)
SpecBatchLive ==
    BatchInit /\ [][NextBatchLive]_vars /\ \A w \in Workers : WF_vars(WorkerStep(w))

(***************************************************************************)
(* Batch files: ExecHashJoinSaveTuple and ExecHashJoinGetSavedTuple.       *)
(* A file is a sequence of 4-byte words; a MinimalTuple is its length word *)
(* t_len followed by t_len - 1 words of data, so a saved record is         *)
(* <<hashvalue, t_len, data...>>.                                          *)
(***************************************************************************)
HashValues == {3, 12}
DataWords == {1, 2}
MinimalTuples ==
    {<<2, a>> : a \in DataWords} \cup {<<3, a, b>> : a \in DataWords, b \in DataWords}
IoOutcomes == {"ok", "nocreate", "nowrite1", "nowrite2"}

\* buffile.c: a new temporary file; a write of ws at the file position, which
\* raises an error when the device takes fewer words than asked (fault); a
\* read of up to n words; a seek to the start
BufFileCreateTemp == [open |-> TRUE, words |-> <<>>, pos |-> 0]
BufFileWrite(f, ws, fault) ==
    LET taken == IF fault THEN SubSeq(ws, 1, Len(ws) - 1) ELSE ws
    IN [file |-> [f EXCEPT !.words = SubSeq(@, 1, f.pos) \o taken,
                           !.pos = @ + Len(taken)],
        error |-> fault]
BufFileRead(f, n) ==
    LET last == IF f.pos + n <= Len(f.words) THEN f.pos + n ELSE Len(f.words)
    IN [file |-> [f EXCEPT !.pos = last], words |-> SubSeq(f.words, f.pos + 1, last)]
BufFileSeek(f) == [f EXCEPT !.pos = 0]

\* a save that writes the hash value and leaves the tuple out
ExecHashJoinSaveTupleHashOnly(tuple, hashvalue, file, io) ==
    IF ~file.open /\ io = "nocreate"
    THEN [file |-> file, error |-> TRUE]
    ELSE BufFileWrite(IF ~file.open THEN BufFileCreateTemp ELSE file, <<hashvalue>>,
                      io = "nowrite1")

\* ExecHashJoinSaveTuple(tuple, hashvalue, fileptr) under the I/O outcome io:
\* the file after the call and whether the call raised an error.  The code
\* tests no return value; an error leaves through the callee's ereport.
ExecHashJoinSaveTuple(tuple, hashvalue, file, io) ==
    IF ~file.open /\ io = "nocreate"
    THEN [file |-> file, error |-> TRUE]
    ELSE LET created == IF ~file.open THEN BufFileCreateTemp ELSE file
             w1 == BufFileWrite(created, <<hashvalue>>, io = "nowrite1")
             w2 == BufFileWrite(w1.file, tuple, io = "nowrite2")
         IN IF w1.error THEN w1 ELSE w2

\* "header[1] - sizeof(uint32)": the words of the tuple still to read once the
\* header, which holds the tuple's length word, is in; and a reader that
\* forgets that the length word is already read
SavedTupleRestWhole(t_len) == t_len
SavedTupleRest(t_len) == t_len - 1

\* variant: a header that is not whole counts as the end of the file
SavedEndOfFileShort(nread) == nread < 2

\* "if (nread == 0) /* end of file */"
SavedEndOfFile(nread) == nread = 0

\* ExecHashJoinGetSavedTuple(file) past its interrupt check: the file after
\* the call and NULL at end of file, the record, or an error on a short read
ExecHashJoinGetSavedTuple(file) ==
    LET hdr == BufFileRead(file, 2)
    IN IF SavedEndOfFile(Len(hdr.words))
       THEN [file |-> hdr.file, result |-> "null", hashvalue |-> 0, tuple |-> <<>>]
       ELSE IF Len(hdr.words) # 2
       THEN [file |-> hdr.file, result |-> "error", hashvalue |-> 0, tuple |-> <<>>]
       ELSE LET body == BufFileRead(hdr.file, SavedTupleRest(hdr.words[2]))
            IN IF Len(body.words) # SavedTupleRest(hdr.words[2])
               THEN [file |-> body.file, result |-> "error", hashvalue |-> 0,
                     tuple |-> <<>>]
               ELSE [file |-> body.file, result |-> "tuple",
                     hashvalue |-> hdr.words[1],
                     tuple |-> <<hdr.words[2]>> \o body.words]

\* an operator that is not executing: the state the spill, batch and
\* partition specifications leave alone
NoInputs ==
    /\ joinqual = NULLQ
    /\ otherqual = NULLQ
    /\ outerIn = <<>>
    /\ innerIn = <<>>
IdleOperator ==
    /\ share = NoShare
    /\ pulls = [inner |-> 0, outer |-> 0]
    /\ node = ExecInitHashJoin(planJoinType)
    /\ hashNode = [s \in {"inner", "outer"} |->
                     [insertTupleValueEqulNull |-> FALSE, curInsertHashValue |-> 0]]
    /\ tab = [inner |-> NULLTABLE, outer |-> NULLTABLE]
    /\ econtext = [outertuple |-> 0, innertuple |-> 0]
    /\ running = FALSE
    /\ ret = "none"
    /\ out = <<>>
    /\ eosCalls = 0
    /\ rescans = 0
    /\ firstOut = [rows |-> <<>>, drained |-> FALSE]
    /\ worker = 0
    /\ outs = <<>>
    /\ NoBatches
OperatorFrame ==
    UNCHANGED <<plan, extVars, pulls, node, hashNode, tab, econtext, running, ret, out,
                eosCalls, rescans, firstOut, backends, parallelVars>>

SpillInit ==
    /\ impl = "spill"
    /\ planJoinType = "JOIN_INNER"
    /\ NoInputs
    /\ IdleOperator
    /\ NoSpill

\* one call of ExecHashJoinSaveTuple on the batch file, as ExecHashTableInsert
\* makes it for a row of a later batch
SpillSave ==
    /\ impl = "spill"
    /\ spillTrace.status \in {"none", "writing"}
    /\ Len(spillTrace.saved) < MaxRecords
    /\ \E t \in MinimalTuples, h \in HashValues, io \in IoOutcomes :
          /\ io = "nocreate" => ~batchFile.open
          /\ LET r == ExecHashJoinSaveTuple(t, h, batchFile, io)
             IN /\ batchFile' = r.file
                /\ spillTrace' = [spillTrace EXCEPT
                                    !.saved = Append(@, <<h, t>>),
                                    !.io = io,
                                    !.status = IF r.error THEN "error" ELSE "writing"]
    /\ UNCHANGED <<hashTupleSlot, hashtable, interruptPending, spins>>
    /\ OperatorFrame

\* "BufFileSeek(innerFile, 0, 0L, SEEK_SET)" before the batch is read back
SpillRewind ==
    /\ impl = "spill"
    /\ spillTrace.status = "writing"
    /\ batchFile.open
    /\ batchFile' = BufFileSeek(batchFile)
    /\ spillTrace' = [spillTrace EXCEPT !.status = "reading"]
    /\ UNCHANGED <<hashTupleSlot, hashtable, interruptPending, spins>>
    /\ OperatorFrame

\* one call of ExecHashJoinGetSavedTuple: CHECK_FOR_INTERRUPTS, then the read
SpillGet ==
    /\ impl \in {"spill", "truncated"}
    /\ spillTrace.status = "reading"
    /\ IF ~CHECK_FOR_INTERRUPTS
       THEN /\ spillTrace' = [spillTrace EXCEPT !.status = "cancelled"]
            /\ UNCHANGED <<batchFile, hashTupleSlot>>
       ELSE LET r == ExecHashJoinGetSavedTuple(batchFile)
            IN /\ batchFile' = r.file
               /\ hashTupleSlot' = IF r.result = "tuple" THEN r.tuple
                                   ELSE IF r.result = "null" THEN 0
                                   ELSE hashTupleSlot
               /\ spillTrace' =
                    [spillTrace EXCEPT
                       !.loaded = IF r.result = "tuple"
                                  THEN Append(@, <<r.hashvalue, r.tuple>>) ELSE @,
                       !.status = CASE r.result = "tuple" -> "reading"
                                    [] r.result = "null" -> "eof"
                                    [] OTHER -> "readerror"]
    /\ UNCHANGED <<hashtable, interruptPending, spins>>
    /\ OperatorFrame

NextSpill == SpillSave \/ SpillRewind \/ SpillGet
SpecSpill == SpillInit /\ [][NextSpill]_vars

(***************************************************************************)
(* ExecHashJoinNewBatch on a table of several batches.  The table's        *)
(* side of it (creation, insertion with batch growth) is nodeHash.c's.     *)
(***************************************************************************)
BatchHashes == 0 .. 3
SpillTuple == <<2, 1>>
BufFileClose(f) == NOFILE

\* ExecHashTableCreate for a table that starts with nb batches
ExecHashTableCreateBatched(nb) ==
    [nbatch |-> nb, curbatch |-> 0, nbatch_original |-> nb, nbatch_outstart |-> nb,
     innerBatchFile |-> [b \in 0 .. nb - 1 |-> NOFILE],
     outerBatchFile |-> [b \in 0 .. nb - 1 |-> NOFILE],
     rows |-> <<>>]

\* the records of a file from its position to its end, as the read loop
\* "while ((slot = ExecHashJoinGetSavedTuple(...)))" sees them
RECURSIVE ReadAll(_)
ReadAll(f) ==
    LET r == ExecHashJoinGetSavedTuple(f)
    IN IF r.result = "tuple" THEN <<<<r.hashvalue, r.tuple>>>> \o ReadAll(r.file)
       ELSE <<>>
SaveTo(files, b, rec) ==
    [files EXCEPT ![b] = ExecHashJoinSaveTuple(rec[2], rec[1], @, "ok").file]
RECURSIVE SaveAll(_, _, _)
SaveAll(files, recs, nbatch) ==
    IF recs = <<>> THEN files
    ELSE SaveAll(SaveTo(files, recs[1][1] % nbatch, recs[1]), Tail(recs), nbatch)
RECURSIVE Keep(_, _, _, _)
Keep(recs, nbatch, b, same) ==
    IF recs = <<>> THEN <<>>
    ELSE (IF (recs[1][1] % nbatch = b) = same THEN <<recs[1]>> ELSE <<>>)
         \o Keep(Tail(recs), nbatch, b, same)

\* ExecHashIncreaseNumBatches: twice the batches; the rows in memory that no
\* longer belong to the current batch go to their batch's inner file
ExecHashIncreaseNumBatches(ht) ==
    LET nb == 2 * ht.nbatch
        grown(files) == [b \in 0 .. nb - 1 |-> IF b < ht.nbatch THEN files[b] ELSE NOFILE]
    IN [ht EXCEPT !.nbatch = nb,
                  !.rows = Keep(ht.rows, nb, ht.curbatch, TRUE),
                  !.innerBatchFile = SaveAll(grown(ht.innerBatchFile),
                                             Keep(ht.rows, nb, ht.curbatch, FALSE), nb),
                  !.outerBatchFile = grown(ht.outerBatchFile)]

\* ExecHashTableInsert on a batched table: into memory when the row is of the
\* current batch, growing the table when memory is over its budget; else to
\* the inner file of the row's batch
ExecHashTableInsertBatched(ht, rec) ==
    IF rec[1] % ht.nbatch = ht.curbatch
    THEN LET ht1 == [ht EXCEPT !.rows = Append(@, rec)]
         IN IF Len(ht1.rows) > SpaceAllowed /\ 2 * ht.nbatch <= MaxNBatch
            THEN ExecHashIncreaseNumBatches(ht1)
            ELSE ht1
    ELSE [ht EXCEPT !.innerBatchFile = SaveTo(@, rec[1] % ht.nbatch, rec)]

\* the breaks of the skip loop: a batch with one file only that has to be
\* processed all the same; and a loop without the two rules for a table
\* that has grown
NewBatchMustProcessNoGrowth(ht, n, nbatch, c) ==
    \/ ht.outerBatchFile[c].open /\ HJ_FILL_OUTER(n)
    \/ ht.innerBatchFile[c].open /\ HJ_FILL_INNER(n)
NewBatchMustProcess(ht, n, nbatch, c) ==
    \/ ht.outerBatchFile[c].open /\ HJ_FILL_OUTER(n)
    \/ ht.innerBatchFile[c].open /\ HJ_FILL_INNER(n)
    \/ ht.innerBatchFile[c].open /\ nbatch # ht.nbatch_original
    \/ ht.outerBatchFile[c].open /\ nbatch # ht.nbatch_outstart

\* "Release associated temp files right away": both files of a skipped batch;
\* and a release of the inner file alone
CloseBatchFilesInnerOnly(ht, c) ==
    [ht EXCEPT !.innerBatchFile[c] = BufFileClose(@)]
CloseBatchFiles(ht, c) ==
    [ht EXCEPT !.innerBatchFile[c] = BufFileClose(@),
               !.outerBatchFile[c] = BufFileClose(@)]

\* the skip loop "while (curbatch < nbatch && (outerBatchFile[curbatch] ==
\* NULL || innerBatchFile[curbatch] == NULL))" from batch c on: the table and
\* the batch the loop ends at, with the number of files it closed
RECURSIVE NewBatchSkip(_, _, _, _, _)
NewBatchSkip(ht, n, nbatch, c, closed) ==
    IF c < nbatch
       /\ (~ht.outerBatchFile[c].open \/ ~ht.innerBatchFile[c].open)
       /\ ~NewBatchMustProcess(ht, n, nbatch, c)
    THEN NewBatchSkip(CloseBatchFiles(ht, c), n, nbatch, c + 1,
                      closed + (IF ht.innerBatchFile[c].open THEN 1 ELSE 0)
                             + (IF ht.outerBatchFile[c].open THEN 1 ELSE 0))
    ELSE [hashtable |-> ht, curbatch |-> c, closed |-> closed]

\* the reload loop: every saved row of the batch goes through
\* ExecHashTableInsert, which may add batches
RECURSIVE NewBatchReload(_, _)
NewBatchReload(ht, file) ==
    LET r == ExecHashJoinGetSavedTuple(file)
    IN IF r.result = "tuple"
       THEN NewBatchReload(ExecHashTableInsertBatched(ht, <<r.hashvalue, r.tuple>>), r.file)
       ELSE ht

\* variant: the rows of the batch before stay in memory
ExecHashTableResetNothing(ht) == ht

\* "ExecHashTableReset(hashtable)": the in-memory table is emptied
ExecHashTableReset(ht) == [ht EXCEPT !.rows = <<>>]

\* ExecHashJoinNewBatch(hjstate) with hjstate->hj_HashTable = ht: the table
\* after the call, the value returned and the files the skip loop closed
ExecHashJoinNewBatch(ht, n) ==
    LET nbatch == ht.nbatch
        ht1 == IF ht.curbatch > 0
               THEN [ht EXCEPT !.outerBatchFile[ht.curbatch] = BufFileClose(@)]
               ELSE ht
        sk == NewBatchSkip(ht1, n, nbatch, ht.curbatch + 1, 0)
    IN IF sk.curbatch >= nbatch
       THEN [hashtable |-> sk.hashtable, result |-> FALSE, closed |-> sk.closed]
       ELSE LET ht2 == ExecHashTableReset([sk.hashtable EXCEPT !.curbatch = sk.curbatch])
                innerFile == ht2.innerBatchFile[sk.curbatch]
                ht3 == IF innerFile.open
                       THEN [NewBatchReload(ht2, BufFileSeek(innerFile))
                               EXCEPT !.innerBatchFile[sk.curbatch] = BufFileClose(@)]
                       ELSE ht2
                ht4 == IF ht3.outerBatchFile[sk.curbatch].open
                       THEN [ht3 EXCEPT !.outerBatchFile[sk.curbatch] = BufFileSeek(@)]
                       ELSE ht3
            IN [hashtable |-> ht4, result |-> TRUE, closed |-> sk.closed]

TableInit ==
    /\ impl = "batch"
    /\ planJoinType \in JoinTypes
    /\ NoInputs
    /\ IdleOperator
    /\ batchFile = NOFILE
    /\ hashTupleSlot = 0
    /\ spillTrace = [NOTRACE EXCEPT !.status = "build"]
    /\ hashtable \in {ExecHashTableCreateBatched(nb) : nb \in {1, 2}}
    /\ interruptPending = FALSE
    /\ srf = NOSRF
    /\ vec = NOVEC
    /\ spins = 0
TableFrame ==
    /\ UNCHANGED <<batchFile, hashTupleSlot, interruptPending, spins>>
    /\ OperatorFrame

\* the build: one inner row into the table
TableBuild ==
    /\ impl = "batch"
    /\ spillTrace.status = "build"
    /\ Len(spillTrace.saved) < MaxBuild
    /\ \E h \in BatchHashes :
          /\ hashtable' = ExecHashTableInsertBatched(hashtable, <<h, SpillTuple>>)
          /\ spillTrace' = [spillTrace EXCEPT !.saved = Append(@, h)]
    /\ TableFrame

\* the end of the build: "hashtable->nbatch_outstart = hashtable->nbatch"
TableStartProbe ==
    /\ impl = "batch"
    /\ spillTrace.status = "build"
    /\ hashtable' = [hashtable EXCEPT !.nbatch_outstart = hashtable.nbatch]
    /\ spillTrace' = [spillTrace EXCEPT !.status = "probe"]
    /\ TableFrame

\* the first pass over the outer input: a row of a later batch is saved to
\* that batch's outer file
TableProbeOuter ==
    /\ impl = "batch"
    /\ spillTrace.status = "probe"
    /\ hashtable.curbatch = 0
    /\ Len(spillTrace.loaded) < MaxProbe
    /\ \E h \in BatchHashes :
          /\ hashtable' =
               IF h % hashtable.nbatch # 0
               THEN [hashtable EXCEPT !.outerBatchFile =
                        SaveTo(@, h % hashtable.nbatch, <<h, SpillTuple>>)]
               ELSE hashtable
          /\ spillTrace' = [spillTrace EXCEPT !.loaded = Append(@, h)]
    /\ TableFrame

\* the pass over the outer file of a later batch: a row that a growth of the
\* table has moved to another batch is saved to that batch's outer file
TableDrainOuter ==
    /\ impl = "batch"
    /\ spillTrace.status = "newbatch"
    /\ LET c == hashtable.curbatch
           f == hashtable.outerBatchFile[c]
           recs == IF f.open THEN ReadAll(f) ELSE <<>>
       IN hashtable' =
            [hashtable EXCEPT
               !.outerBatchFile =
                  SaveAll([@ EXCEPT ![c] = IF f.open THEN [f EXCEPT !.pos = Len(f.words)]
                                           ELSE f],
                          Keep(recs, hashtable.nbatch, c, FALSE), hashtable.nbatch)]
    /\ spillTrace' = [spillTrace EXCEPT !.status = "probe"]
    /\ TableFrame

\* one call of ExecHashJoinNewBatch at the end of a batch
TableNewBatch ==
    /\ impl = "batch"
    /\ spillTrace.status = "probe"
    /\ LET r == ExecHashJoinNewBatch(hashtable, node)
       IN /\ hashtable' = r.hashtable
          /\ spillTrace' = [spillTrace EXCEPT
                              !.status = IF r.result THEN "newbatch" ELSE "done",
                              !.newbatches = IF r.result THEN @ + 1 ELSE @,
                              !.closed = r.closed]
    /\ TableFrame

NextTable ==
    TableBuild \/ TableStartProbe \/ TableProbeOuter \/ TableDrainOuter \/ TableNewBatch
SpecTable == TableInit /\ [][NextTable]_vars

(***************************************************************************)
(* Cancel requests and a state value outside the state set.                *)
(***************************************************************************)
\* ExecParallelHashJoinPartitionOuter: one round of its loop.  The row is
\* fetched and written to the shared tuplestore of its batch before the loop
\* looks for a cancel request; the loop ends at the end of the outer input.
PartitionStart(jointypes) ==
    /\ impl = "partition"
    /\ planJoinType \in jointypes
    /\ IdleOperator
    /\ outerIn \in Inputs
    /\ innerIn = <<>>
    /\ joinqual = NULLQ
    /\ otherqual = NULLQ
    /\ batchFile = NOFILE
    /\ hashTupleSlot = 0
    /\ spillTrace = [NOTRACE EXCEPT !.status = "partition"]
    /\ hashtable = [nbatch |-> NBatch, outer_tuples |-> [b \in 0 .. NBatch - 1 |-> <<>>],
                    writing |-> [b \in 0 .. NBatch - 1 |-> TRUE]]
    /\ interruptPending = FALSE
    /\ srf = NOSRF
    /\ vec = NOVEC
    /\ spins = 0
PartitionInit == PartitionStart({"JOIN_INNER"})

\* the keep_nulls argument of ExecHashGetHashValue: "HJ_FILL_OUTER(hjstate)"
PartitionKeepNulls(n) == HJ_FILL_OUTER(n)

\* at the end of the outer input, "for (i = 0; i < hashtable->nbatch; ++i)
\* sts_end_write(hashtable->batches[i].outer_tuples)" and the return
PartitionOuterRow ==
    /\ impl = "partition"
    /\ spillTrace.status = "partition"
    /\ IF pulls.outer >= Len(outerIn)
       THEN /\ spillTrace' = [spillTrace EXCEPT !.status = "partitioned"]
            /\ hashtable' = [hashtable EXCEPT
                               !.writing = [b \in 0 .. hashtable.nbatch - 1 |-> FALSE]]
            /\ UNCHANGED pulls
       ELSE LET o == pulls.outer + 1
                hv == ExecHashGetHashValue(OuterKey(o), PartitionKeepNulls(node))
            IN /\ pulls' = [pulls EXCEPT !.outer = o]
               /\ hashtable' =
                    IF hv[1]
                    THEN [hashtable EXCEPT
                            !.outer_tuples[hv[2] % hashtable.nbatch] = Append(@, o)]
                    ELSE hashtable
               /\ spillTrace' = [spillTrace EXCEPT
                                   !.status = IF CHECK_FOR_INTERRUPTS THEN @
                                              ELSE "cancelled"]
    /\ UNCHANGED <<plan, extVars, node, hashNode, tab, econtext, running, ret, out, eosCalls,
                   rescans, firstOut, backends, parallelVars, batchFile, hashTupleSlot,
                   interruptPending, spins>>

\* a cancel request arrives (the signal handler sets InterruptPending)
SetInterrupt ==
    /\ ~interruptPending
    /\ ret # "cancelled"
    /\ spillTrace.status # "cancelled"
    /\ interruptPending' = TRUE
    /\ UNCHANGED <<plan, extVars, pulls, node, hashNode, tab, econtext, running, ret, out,
                   eosCalls, rescans, firstOut, backends, parallelVars, spillVars, spins>>

\* CHECK_FOR_INTERRUPTS at the head of the operator's loop finds the request:
\* ProcessInterrupts ends the query with an error
ProcessInterrupts ==
    /\ impl \in {"sym", "hj"}
    /\ running
    /\ interruptPending
    /\ running' = FALSE
    /\ ret' = "cancelled"
    /\ UNCHANGED <<plan, extVars, pulls, node, hashNode, tab, econtext, out, eosCalls, rescans,
                   firstOut, backends, parallelVars, spillVars, interruptPending, spins>>

\* the values of hj_JoinState the two switch statements have a case for, and
\* a value that is none of them, written over hj_JoinState between two calls
RecognizedStates == HJ_BUILD_HASHTABLE .. HJ_FILL_TUPLES
CorruptJoinState ==
    /\ impl \in {"sym", "hj"}
    /\ ~running
    /\ ret \notin {"crash", "error", "cancelled", "ended"}
    /\ node.hj_JoinState \in RecognizedStates
    /\ \E s \in {0, 7} : node' = [node EXCEPT !.hj_JoinState = s]
    /\ UNCHANGED <<plan, extVars, pulls, hashNode, tab, econtext, running, ret, out, eosCalls,
                   rescans, firstOut, backends, parallelVars, spillVars,
                   interruptPending, spins>>

\* ExecSymHashJoin, "default: elog(ERROR, "unrecognized hashjoin state: %d")"
SymUnrecognized ==
    /\ impl = "sym"
    /\ running
    /\ CHECK_FOR_INTERRUPTS
    /\ node.hj_JoinState \notin RecognizedStates
    /\ running' = FALSE
    /\ ret' = "error"
    /\ UNCHANGED <<plan, extVars, pulls, node, hashNode, tab, econtext, out, eosCalls, rescans,
                   firstOut, backends, parallelVars, spillVars, interruptPending, spins>>

\* ExecHashJoinImpl: its switch has no default case, so a value without a
\* case falls out of the switch and the for (;;) loop goes round again
HJUnrecognized ==
    /\ impl = "hj"
    /\ running
    /\ CHECK_FOR_INTERRUPTS
    /\ node.hj_JoinState \notin RecognizedStates
    /\ spins < MaxSpins
    /\ spins' = spins + 1
    /\ LoopAgain
    /\ UNCHANGED <<plan, extVars, pulls, node, hashNode, tab, econtext, rescans, firstOut,
                   backends, parallelVars, spillVars, interruptPending>>

FaultInit ==
    \/ (SymInit \/ HJInit) /\ joinqual = NULLQ /\ otherqual = NULLQ
    \/ SpillInit
    \/ PartitionInit
NextFault ==
    \/ Call \/ SymNext \/ HJNext
    \/ NextSpill
    \/ PartitionOuterRow
    \/ SetInterrupt \/ ProcessInterrupts
    \/ CorruptJoinState \/ SymUnrecognized \/ HJUnrecognized
SpecFault == FaultInit /\ [][NextFault]_vars

\* ExecParallelHashJoinPartitionOuter on its own, for a join that null-fills
\* the outer side or does not
PartitionAnyInit == PartitionStart({"JOIN_INNER", "JOIN_LEFT"})
NextPartition == PartitionOuterRow \/ SetInterrupt
SpecPartition == PartitionAnyInit /\ [][NextPartition]_vars

(***************************************************************************)
(* The two operators, each driven by a caller that pulls until              *)
(* end-of-stream and a little beyond.                                      *)
(***************************************************************************)
(***************************************************************************)
(* pg_dirtyread.c: the set-returning function dirtyread(regclass).         *)
(* The heap is the sequence of tuples physically present; dead marks a     *)
(* tuple whose deleting transaction has committed.                         *)
(***************************************************************************)
HeapTuples == [a : 1..MaxHeap, dead : BOOLEAN]
Heaps == UNION {{h \in [1..n -> HeapTuples] : \A i \in 1..n : h[i].a = i} : n \in 0..MaxHeap}

\* the snapshot a plain "select * from foo" scans with
SnapshotMVCC == "SnapshotMVCC"
\* the snapshot dirtyread hands to heap_beginscan
SnapshotAny == "SnapshotAny"

\* HeapTupleSatisfiesVisibility
HeapTupleSatisfies(snapshot, t) == snapshot = "SnapshotAny" \/ ~t.dead

\* heap_beginscan(rel, snapshot, 0, NULL, NULL, 0)
heap_beginscan(snapshot) == [open |-> TRUE, pos |-> 0, snapshot |-> snapshot]

\* heap_getnext(scan, ForwardScanDirection): the position of the next tuple
\* after scan.pos that the scan's snapshot lets through, 0 when there is none
heap_getnext(heap, scan) ==
    LET later == {i \in (scan.pos + 1)..Len(heap) : HeapTupleSatisfies(scan.snapshot, heap[i])}
    IN IF later = {} THEN 0 ELSE CHOOSE i \in later : \A j \in later : i <= j

DirtyInit ==
    /\ impl = "dirtyread"
    /\ planJoinType = "JOIN_INNER"
    /\ NoInputs
    /\ IdleOperator
    /\ batchFile = NOFILE
    /\ hashTupleSlot = 0
    /\ spillTrace = NOTRACE
    /\ hashtable = NOHASHTABLE
    /\ interruptPending = FALSE
    /\ spins = 0
    /\ \E h \in Heaps, c \in BOOLEAN : srf = [NOSRF EXCEPT !.heap = h, !.composite = c]
    /\ vec = NOVEC

\* one call of dirtyread by the function manager.  After SRF_RETURN_DONE the
\* function manager makes no further call of this invocation
dirtyread ==
    /\ impl = "dirtyread"
    /\ srf.result \notin {"done", "error"}
    /\ LET first == ~srf.fn_extra                       \* SRF_IS_FIRSTCALL()
           \* table_open
           opened == IF first THEN [srf EXCEPT !.fn_extra = TRUE, !.rel = TRUE] ELSE srf
       IN IF first /\ ~srf.composite
          THEN \* elog(ERROR, "return type must be a row type")
               srf' = [opened EXCEPT !.result = "error"]
          ELSE LET begun == IF first
                            THEN [opened EXCEPT !.scan = heap_beginscan(SnapshotAny)]
                            ELSE opened
                   tuple == heap_getnext(begun.heap, begun.scan)
               IN IF tuple # 0
                  THEN \* SRF_RETURN_NEXT
                       srf' = [begun EXCEPT !.scan.pos = tuple,
                                            !.returned = Append(@, begun.heap[tuple]),
                                            !.result = "next"]
                  ELSE \* heap_endscan, table_close, SRF_RETURN_DONE
                       srf' = [begun EXCEPT !.scan.open = FALSE,
                                            !.endscans = @ + 1,
                                            !.rel = FALSE,
                                            !.closes = @ + 1,
                                            !.fn_extra = FALSE,
                                            !.result = "done"]
    /\ UNCHANGED <<plan, pulls, node, hashNode, tab, econtext, running, ret, out,
                   eosCalls, rescans, firstOut, backends, parallelVars, spillVars,
                   interruptPending, spins, vec>>

NextDirty == dirtyread
SpecDirty == DirtyInit /\ [][NextDirty]_vars

(***************************************************************************)
(* The vector type (vector.c).  A vector is a varlena: a 4-byte length     *)
(* word, which holds the size of the whole datum in bytes, and the         *)
(* elements, 4 bytes each.                                                 *)
(***************************************************************************)
\* the values an element takes here
Floats == 0 .. 2
\* "SET_VARSIZE(result, size * sizeof(float) + VARHDRSZ)" on the elements data
MakeVector(data) == [varsize |-> Len(data) * 4 + 4, data |-> data]
\* the vectors vector_in makes from texts of 1 to MaxDim elements
Vectors == {MakeVector(d) : d \in UNION {[1..n -> Floats] : n \in 1..MaxDim}}

\* variant: only the first element is counted
VectorSizeOne(v) == 1

\* "(VARSIZE_ANY(v) - VARHDRSZ) / sizeof(float)"
VectorSize(v) == (v.varsize - 4) \div 4

\* the integer part of the square root of n
RECURSIVE Sqrt(_, _)
Sqrt(n, r) == IF (r + 1) * (r + 1) > n THEN r ELSE Sqrt(n, r + 1)
RECURSIVE SumSquares(_, _, _)
SumSquares(l, r, i) ==
    IF i = 0 THEN 0 ELSE SumSquares(l, r, i - 1) + (l[i] - r[i]) * (l[i] - r[i])

\* the three functions of two vectors: the status of the call and its value
vector_distance(left, right) ==
    LET leftSize == VectorSize(left)
        rightSize == VectorSize(right)
    IN IF leftSize # rightSize
       THEN [status |-> "vectors must have same dimension", value |-> <<>>]
       ELSE [status |-> "ok", value |-> Sqrt(SumSquares(left.data, right.data, leftSize), 0)]
vector_add(left, right) ==
    LET leftSize == VectorSize(left)
        rightSize == VectorSize(right)
    IN IF leftSize # rightSize
       THEN [status |-> "vectors must have same dimension", value |-> <<>>]
       ELSE [status |-> "ok",
             value |-> MakeVector([i \in 1..leftSize |-> left.data[i] + right.data[i]])]
vector_sub(left, right) ==
    LET leftSize == VectorSize(left)
        rightSize == VectorSize(right)
    IN IF leftSize # rightSize
       THEN [status |-> "vectors must have same dimension", value |-> <<>>]
       ELSE [status |-> "ok",
             value |-> MakeVector([i \in 1..leftSize |-> left.data[i] - right.data[i]])]

VectorFrame ==
    UNCHANGED <<plan, pulls, node, hashNode, tab, econtext, running, ret, out,
                eosCalls, rescans, firstOut, backends, parallelVars, spillVars,
                interruptPending, spins, srf>>
VectorIdle ==
    /\ planJoinType = "JOIN_INNER"
    /\ NoInputs
    /\ IdleOperator
    /\ batchFile = NOFILE
    /\ hashTupleSlot = 0
    /\ spillTrace = NOTRACE
    /\ hashtable = NOHASHTABLE
    /\ interruptPending = FALSE
    /\ spins = 0
    /\ srf = NOSRF
VectorOpsInit ==
    /\ impl = "vector"
    /\ VectorIdle
    /\ \E l, r \in Vectors : vec = [NOVEC EXCEPT !.left = l, !.right = r]

\* one call of an operator function on the two arguments
CallDistance ==
    /\ impl = "vector" /\ vec.fn = "none"
    /\ LET r == vector_distance(vec.left, vec.right)
       IN vec' = [vec EXCEPT !.fn = "vector_distance", !.status = r.status, !.value = r.value]
    /\ VectorFrame
CallAdd ==
    /\ impl = "vector" /\ vec.fn = "none"
    /\ LET r == vector_add(vec.left, vec.right)
       IN vec' = [vec EXCEPT !.fn = "vector_add", !.status = r.status, !.value = r.value]
    /\ VectorFrame
CallSub ==
    /\ impl = "vector" /\ vec.fn = "none"
    /\ LET r == vector_sub(vec.left, vec.right)
       IN vec' = [vec EXCEPT !.fn = "vector_sub", !.status = r.status, !.value = r.value]
    /\ VectorFrame
NextVectorOps == CallDistance \/ CallAdd \/ CallSub
SpecVectorOps == VectorOpsInit /\ [][NextVectorOps]_vars

(***************************************************************************)
(* vector_in.  A text is a sequence of characters; the two sources of the  *)
(* function differ in the loop that examines a token.                      *)
(***************************************************************************)
Digits == {"1"}
Signs == {"-"}
\* the characters between the first and the last of a text, and the texts
Inner == {",", " ", ".", "a"} \cup Digits \cup Signs
Texts ==
    {<<f>> \o b \o <<l>> : f \in {"{", "1"}, l \in {"}", "1"},
                           b \in UNION {[1..n -> Inner] : n \in 0..MaxText}}

\* "token = strtok(str, s)" with s = "{,}", called until it returns NULL: the
\* runs of characters that are not delimiters, cur being the run begun
RECURSIVE strtok(_, _, _)
strtok(str, i, cur) ==
    LET ended == IF cur = <<>> THEN <<>> ELSE <<cur>>
    IN IF i > Len(str) THEN ended
       ELSE IF str[i] \in {"{", ",", "}"} THEN ended \o strtok(str, i + 1, <<>>)
       ELSE strtok(str, i + 1, Append(cur, str[i]))

\* src/unnamed/part_000: the body of "for (int i = 0; i < strlen(token); i++)"
\* for the character c, error being the message of THROW_ERROR
ScanChar(st, c) ==
    IF c \in Digits
    THEN [st EXCEPT !.dotAllow = TRUE, !.spaceAllow = FALSE, !.addOrSubAllow = FALSE,
                    !.digitAppearance = TRUE]
    ELSE IF c \in Signs
    THEN (IF st.addOrSubAllow
          THEN [st EXCEPT !.addOrSubAllow = FALSE, !.spaceAllow = FALSE]
          ELSE [st EXCEPT !.error = "Error in addition or subtraction"])
    ELSE IF c = "."
    THEN (IF st.dotAllow
          THEN [st EXCEPT !.dotAllow = FALSE, !.spaceAllow = FALSE]
          ELSE [st EXCEPT !.error = "Error in dot"])
    ELSE IF c = " "
    THEN (IF ~st.spaceAllow THEN [st EXCEPT !.error = "Error in space"] ELSE st)
    ELSE st
RECURSIVE ScanToken(_, _, _)
ScanToken(token, i, st) ==
    IF st.error # "" \/ i > Len(token) THEN st
    ELSE ScanToken(token, i + 1, ScanChar(st, token[i]))
\* the message a token ends vector_in with, "" if it is taken
TokenError(token) ==
    LET st == ScanToken(token, 1,
                        [spaceAllow |-> TRUE, dotAllow |-> FALSE, addOrSubAllow |-> TRUE,
                         digitAppearance |-> FALSE, error |-> ""])
    IN IF st.error # "" THEN st.error
       ELSE IF ~st.digitAppearance THEN "Error in no number"
       ELSE ""

\* src/tutorial/vector.c: the body of the loop for the character c at index
\* i, counted from 0
ScanCharTutorial(st, c, i) ==
    LET checked ==
          IF c \in Digits THEN st
          ELSE IF c = " " /\ ~st.spaceAllow
          THEN [st EXCEPT !.error = "vector format error: error space"]
          ELSE IF c # " " /\ ((i = 0 /\ c \notin Signs) \/ (i # 0 /\ c # "."))
          THEN [st EXCEPT !.error = "vector format error"]
          ELSE IF i # 0 /\ c = "."
          THEN (IF st.dotAllow THEN [st EXCEPT !.dotAllow = FALSE]
                ELSE [st EXCEPT !.error = "vector format error: error dot"])
          ELSE st
    IN IF checked.error # "" THEN checked
       ELSE IF c \in Digits THEN [checked EXCEPT !.spaceAllow = FALSE, !.dotAllow = TRUE]
       ELSE IF c \in Signs THEN [checked EXCEPT !.dotAllow = FALSE, !.spaceAllow = FALSE]
       ELSE checked
RECURSIVE ScanTokenTutorial(_, _, _)
ScanTokenTutorial(token, i, st) ==
    IF st.error # "" \/ i > Len(token) THEN st
    ELSE ScanTokenTutorial(token, i + 1, ScanCharTutorial(st, token[i], i - 1))
TokenErrorTutorial(token) ==
    IF Len(token) = 1 /\ token[1] = " " THEN "vector format error"
    ELSE ScanTokenTutorial(token, 1, [spaceAllow |-> TRUE, dotAllow |-> TRUE,
                                      error |-> ""]).error

\* the first message among the tokens from the k-th on, "" if there is none
RECURSIVE FirstError(_, _, _)
FirstError(build, tokens, k) ==
    IF k > Len(tokens) THEN ""
    ELSE LET e == IF build = "part_000" THEN TokenError(tokens[k])
                  ELSE TokenErrorTutorial(tokens[k])
         IN IF e # "" THEN e ELSE FirstError(build, tokens, k + 1)

\* vector_in(str) as compiled from build: the status of the call and the
\* element count of the vector returned
vector_in(build, str) ==
    LET tokens == strtok(str, 1, <<>>)
        e == FirstError(build, tokens, 1)
    IN IF str[1] # "{" \/ str[Len(str)] # "}"
       THEN [status |-> "vector must begin with '{' and end with '}'", value |-> 0]
       ELSE IF tokens = <<>>
       THEN [status |-> "dimension of vector must be greater than one", value |-> 0]
       ELSE IF e # "" THEN [status |-> e, value |-> 0]
       ELSE [status |-> "ok", value |-> Len(tokens)]

VectorInInit ==
    /\ impl = "vector_in"
    /\ VectorIdle
    /\ \E b \in {"part_000", "tutorial"}, t \in Texts :
          vec = [NOVEC EXCEPT !.build = b, !.text = t]
CallVectorIn ==
    /\ impl = "vector_in" /\ vec.fn = "none"
    /\ LET r == vector_in(vec.build, vec.text)
       IN vec' = [vec EXCEPT !.fn = "vector_in", !.status = r.status, !.value = r.value]
    /\ VectorFrame
SpecVectorIn == VectorInInit /\ [][CallVectorIn]_vars

Init == SymInit \/ HJInit

\* a semi join, run by either operator
SemiInit ==
    /\ impl \in {"sym", "hj"}
    /\ planJoinType = "JOIN_SEMI"
    /\ \E q \in QualCases : joinqual = q[1] /\ otherqual = q[2]
    /\ outerIn \in Inputs
    /\ innerIn \in Inputs
    /\ pulls = [inner |-> 0, outer |-> 0]
    /\ node = IF impl = "sym" THEN ExecInitSymHashJoin(planJoinType)
              ELSE ExecInitHashJoin(planJoinType)
    /\ hashNode = [s \in {"inner", "outer"} |->
                     [insertTupleValueEqulNull |-> FALSE, curInsertHashValue |-> 0]]
    /\ tab = [inner |-> NULLTABLE, outer |-> NULLTABLE]
    /\ econtext = [outertuple |-> 0, innertuple |-> 0]
    /\ running = FALSE
    /\ ret = "none"
    /\ out = <<>>
    /\ eosCalls = 0
    /\ rescans = 0
    /\ firstOut = [rows |-> <<>>, drained |-> FALSE]
    /\ share = NoShare
    /\ worker = 0
    /\ outs = <<>>
    /\ NoBatches
    /\ NoSpill
Next == Call \/ SymNext \/ HJNext
Spec == Init /\ [][Next]_vars
SpecSemi == SemiInit /\ [][Next]_vars

(***************************************************************************)
(* Reference definitions for the properties.                               *)
(***************************************************************************)
Rng(s) == {s[k] : k \in 1..Len(s)}
Count(s, x) == Cardinality({k \in 1..Len(s) : s[k] = x})
SameMultiset(s, t) == \A x \in Rng(s) \cup Rng(t) : Count(s, x) = Count(t, x)
\* s holds every element of S once and nothing else
EachOnce(s, S) == Rng(s) = S /\ Len(s) = Cardinality(S)

QualHolds(q, o, i) == q = NULLQ \/ ExecQual(q, o, i)

NonNullInputs ==
    /\ \A k \in 1..Len(outerIn) : outerIn[k] # NULLKEY
    /\ \A k \in 1..Len(innerIn) : innerIn[k] # NULLKEY

\* the pairs a nested-loop join over the hash clauses and the join qualifier
\* finds, and those of them the residual qualifier lets through
Matches ==
    {p \in (1..Len(outerIn)) \X (1..Len(innerIn)) :
        /\ HashClauses(OuterKey(p[1]), InnerKey(p[2]))
        /\ QualHolds(joinqual, p[1], p[2])}
NestedLoop == {p \in Matches : QualHolds(otherqual, p[1], p[2])}

\* the sides the plan's join type asks to null-fill
NeedsFill(side) ==
    IF side = "outer" THEN planJoinType \in {"JOIN_LEFT", "JOIN_FULL"}
    ELSE planJoinType \in {"JOIN_RIGHT", "JOIN_FULL"}
Sides == {"inner", "outer"}
RowsOf(side) == 1..Len(InputOf(side))
\* row r of a side with the other side's columns NULL
Padded(side, r) == IF side = "outer" THEN <<r, 0>> ELSE <<0, r>>
PaddedPasses(side, r) ==
    QualHolds(otherqual, Padded(side, r)[1], Padded(side, r)[2])
Joined(row) == row[1] # 0 /\ row[2] # 0
RowOfSide(side, row) == IF side = "outer" THEN row[1] ELSE row[2]
HasMatch(side, r) ==
    \E p \in Matches : RowOfSide(side, p) = r
SameBucketCounts == tab.inner.nbuckets = tab.outer.nbuckets /\ tab.inner.nbuckets > 0

(***************************************************************************)
(* Properties.                                                             *)
(***************************************************************************)
\* C1: ExecSymHashJoin, inner join, inputs without NULL keys: a row returned
\* is always a pair of the nested-loop join whose two rows have both been
\* pulled, no pair is returned twice, and at end-of-stream the rows returned
\* are exactly the pairs of the nested-loop join, each once.
C1_SymInnerJoin ==
    (impl = "sym" /\ planJoinType = "JOIN_INNER" /\ NonNullInputs) =>
        /\ \A k \in 1..Len(out) :
              /\ out[k] \in NestedLoop
              /\ out[k][1] <= pulls.outer
              /\ out[k][2] <= pulls.inner
        /\ Len(out) = Cardinality(Rng(out))
        /\ (eosCalls >= 1 => EachOnce(out, NestedLoop))

\* a drained inner join of two rows against two rows, all of one key
C1_Drained ==
    /\ impl = "sym" /\ planJoinType = "JOIN_INNER" /\ NonNullInputs
    /\ eosCalls >= 1
    /\ Len(out) = 4
    /\ Cardinality(NestedLoop) = 4

\* C2: ExecHashJoinImpl, inputs without NULL keys (rows of one side may share
\* a key): at end-of-stream the rows returned are exactly the pairs of the
\* nested-loop join, each once.  (Stated for runs in which both tables have
\* the same number of buckets, so that every scan reads an existing bucket.)
C2_HJInnerJoin ==
    (impl = "hj" /\ NonNullInputs /\ SameBucketCounts /\ eosCalls >= 1) =>
        EachOnce(out, NestedLoop)

\* C3: ExecSymHashJoin: a null-padded row is returned only in the completion
\* scan (both producers exhausted) of a side the join type fills, only for a
\* stored row whose match bit is clear, and never twice; at end-of-stream
\* every stored row of such a side whose match bit is clear and whose padded
\* row passes the residual qualifier has been returned padded.
C3_SymCompletionScan ==
    impl = "sym" =>
        \A side \in Sides : \A r \in RowsOf(side) :
            /\ Count(out, Padded(side, r)) <= 1
            /\ Count(out, Padded(side, r)) = 1 =>
                  /\ NeedsFill(side)
                  /\ node.innerTupleNull /\ node.outerTupleNull
                  /\ r \in StoredRows(tab[side])
                  /\ r \notin tab[side].matched
                  /\ PaddedPasses(side, r)
            /\ (/\ eosCalls >= 1 /\ NeedsFill(side)
                /\ r \in StoredRows(tab[side]) /\ r \notin tab[side].matched
                /\ PaddedPasses(side, r))
                  => Count(out, Padded(side, r)) = 1

\* a drained full join that returned a joined row and a padded row of each side
C3_BothSidesFilled ==
    /\ impl = "sym" /\ planJoinType = "JOIN_FULL"
    /\ eosCalls >= 1
    /\ \E k \in 1..Len(out) : Joined(out[k])
    /\ \E r \in RowsOf("outer") : Count(out, Padded("outer", r)) = 1
    /\ \E r \in RowsOf("inner") : Count(out, Padded("inner", r)) = 1
    /\ tab.inner.matched # {} /\ tab.outer.matched # {}

\* what every row with a NULL key obeys at all times in ExecSymHashJoin: it
\* is in no joined row, it is returned padded at most once, and not at all
\* when its side is not filled
NullKeyRowKeptApart(side, r) ==
    /\ \A k \in 1..Len(out) : Joined(out[k]) => RowOfSide(side, out[k]) # r
    /\ Count(out, Padded(side, r)) <= 1
    /\ ~NeedsFill(side) => Count(out, Padded(side, r)) = 0

\* C4 (amended): ExecSymHashJoin: a row with a NULL key is in no joined row;
\* when its side is filled it has been returned padded exactly once by
\* end-of-stream if the residual qualifier accepts its padded row and not at
\* all if the qualifier rejects it; when its side is not filled it is in no
\* row returned.
C4_SymNullKeyRows ==
    impl = "sym" =>
        \A side \in Sides : \A r \in RowsOf(side) :
            KeyOf(side, r) = NULLKEY =>
                /\ NullKeyRowKeptApart(side, r)
                /\ ~PaddedPasses(side, r) => Count(out, Padded(side, r)) = 0
                /\ (eosCalls >= 1 /\ NeedsFill(side) /\ PaddedPasses(side, r))
                      => Count(out, Padded(side, r)) = 1

\* C4 as stated: ... when its side is filled it has been returned padded
\* exactly once by end-of-stream (whatever the residual qualifier).
C4_SymNullKeyRowsAsStated ==
    impl = "sym" =>
        \A side \in Sides : \A r \in RowsOf(side) :
            KeyOf(side, r) = NULLKEY =>
                /\ NullKeyRowKeptApart(side, r)
                /\ (eosCalls >= 1 /\ NeedsFill(side))
                      => Count(out, Padded(side, r)) = 1

\* a drained left join: its outer NULL-key row came out padded, while the
\* NULL-key row of the inner side, which is not filled, is in no row
C4_NullKeyRowPadded ==
    /\ impl = "sym" /\ planJoinType = "JOIN_LEFT"
    /\ eosCalls >= 1
    /\ \E r \in RowsOf("outer") :
          OuterKey(r) = NULLKEY /\ Count(out, Padded("outer", r)) = 1
    /\ \E r \in RowsOf("inner") : InnerKey(r) = NULLKEY
    /\ \E k \in 1..Len(out) : Joined(out[k])

\* C5: ExecInitHashJoin + ExecHashJoinImpl: at end-of-stream every row of a
\* side the plan's join type fills (LEFT: outer, RIGHT: inner, FULL: both)
\* that has no match, NULL keys included, has been returned once as a
\* null-padded row, provided the residual qualifier accepts the padded row.
C5_HJOuterJoinPads ==
    (impl = "hj" /\ SameBucketCounts /\ eosCalls >= 1) =>
        \A side \in Sides : \A r \in RowsOf(side) :
            (NeedsFill(side) /\ ~HasMatch(side, r) /\ PaddedPasses(side, r))
                => Count(out, Padded(side, r)) = 1

\* C6: ExecHashJoinImpl drained, ExecReScanHashJoin, drained again: the
\* second drain returns the same multiset of rows as the first.
C6_RescanIdempotent ==
    (impl = "hj" /\ rescans >= 1 /\ firstOut.drained /\ eosCalls >= 1) =>
        SameMultiset(out, firstOut.rows)

\* the rows returned to the workers of the parallel query, once the last of
\* them has drained its operator
RECURSIVE ConcatFrom(_, _)
ConcatFrom(ss, k) ==
    IF k > Len(ss) THEN <<>> ELSE ss[k].rows \o ConcatFrom(ss, k + 1)
ParallelRows == ConcatFrom(outs, 2) \o out

\* C7: the rows returned to the NWorkers workers running ExecParallelHashJoin
\* are, as a multiset, the rows returned to one backend running ExecHashJoin
\* over the same inputs.  (Stated for the runs in which every backend gave
\* its two tables the same number of buckets and the single backend returned
\* the nested-loop result.)
C7_ParallelEqualsSequential ==
    (/\ impl = "hj" /\ worker = NWorkers /\ eosCalls >= 1
     /\ SameBucketCounts
     /\ \A k \in 1..Len(outs) : outs[k].nbuckets[1] = outs[k].nbuckets[2]
     /\ EachOnce(outs[1].rows, NestedLoop))
        => SameMultiset(ParallelRows, outs[1].rows)

\* worker w is attached to the barrier of batch b
AttachedTo(w, b) ==
    LET p == participant[w]
    IN \/ p.pc \in {"case", "wait", "alloc", "load", "insert"} /\ p.batchno = b
       \/ p.pc = "out" /\ p.curbatch = b
\* worker w is outside the operator, free to return rows of batch b
ReturningRows(w, b) ==
    participant[w].pc = "out" /\ participant[w].result = "true"
        /\ participant[w].curbatch = b
\* worker w sleeps at the barrier of batch b and nothing has released it
BlockedOn(w, b) ==
    LET p == participant[w]
    IN p.pc = "wait" /\ p.batchno = b /\ batches[b].phase = p.at

\* C8: ExecParallelHashJoinNewBatch returns true only to a worker attached to
\* a batch barrier in phase PROBING; no worker arrives-and-waits at a batch
\* barrier in phase PROBING or later; so no worker is blocked on a barrier
\* another attached worker of which is outside the operator returning rows.
C8_BatchBarrierRule ==
    impl = "newbatch" =>
        /\ \A b \in BatchNos :
              batches[b].participants = Cardinality({w \in Workers : AttachedTo(w, b)})
        /\ \A w \in Workers :
              LET p == participant[w]
              IN /\ (p.pc = "out" /\ p.result = "true") =>
                        /\ p.curbatch \in BatchNos
                        /\ batches[p.curbatch].phase = PHJ_BATCH_PROBING
                 /\ p.pc = "wait" => p.at < PHJ_BATCH_PROBING
                 /\ (p.pc = "out" /\ p.result # "true") => p.curbatch = -1
        /\ \A b \in BatchNos : \A w, v \in Workers :
              ~(BlockedOn(w, b) /\ ReturningRows(v, b))

\* one worker probes a batch the other worker, already finished with it, has
\* left for the next batch, where it sleeps in the LOADING wait or is
\* about to arrive
C8_ProbingWhileOtherMovesOn ==
    /\ impl = "newbatch"
    /\ \E w, v \in Workers : \E b \in BatchNos :
          /\ w # v
          /\ ReturningRows(w, b)
          /\ participant[v].done[b]
          /\ participant[v].pc \in {"case", "wait"}

\* C9: ExecSymHashJoin and ExecHashJoinImpl: after a call has returned
\* end-of-stream, no step returns a row or pulls from a producer, and a call
\* can only end in end-of-stream again.
C9_TerminalEmptiness ==
    [][eosCalls >= 1 =>
          /\ out' = out
          /\ pulls' = pulls
          /\ ret' \in {"none", "eos"}
          /\ eosCalls' >= eosCalls]_vars

\* two calls after the first end-of-stream have ended, of an operator that
\* had returned rows
C9_CalledAfterEnd ==
    /\ eosCalls >= 3
    /\ ~running
    /\ out # <<>>
    /\ pulls.inner >= 1 /\ pulls.outer >= 1

\* the operator is in one of its two bucket-scan states
InBucketScan ==
    IF impl = "sym"
    THEN node.hj_JoinState \in {SYM_HJ_SCAN_OUTER_BUCKET, SYM_HJ_SCAN_INNER_BUCKET}
    ELSE node.hj_JoinState \in {HJ_SCAN_OUTER_BUCKET, HJ_SCAN_INNER_BUCKET}
\* the scan looks for outer rows (an inner row probes the outer table)
ScansOuter(n) ==
    IF impl = "sym" THEN n.hj_JoinState = SYM_HJ_SCAN_OUTER_BUCKET
    ELSE n.hj_JoinState = HJ_SCAN_OUTER_BUCKET
\* the cursor of the scan the operator is in
ScanCursor(n) ==
    IF impl = "sym"
    THEN (IF ScansOuter(n) THEN n.hj_CurOutTuple ELSE n.hj_CurTuple)
    ELSE (IF ScansOuter(n) THEN n.hj_CurTuple_inner ELSE n.hj_CurTuple_outer)

\* C10: a call returns at most one row; when a bucket scan returns a joined
\* row, the operator stays in that scan state with the same probing row and
\* with the cursor on the candidate just returned, so that the next call
\* goes on with the candidates after it.
C10_ScanResumes ==
    [][/\ Len(out') <= Len(out) + 1
       /\ Len(out') > Len(out) => ~running'
       /\ (running /\ InBucketScan /\ ret' = "row") =>
             /\ node'.hj_JoinState = node.hj_JoinState
             /\ IF ScansOuter(node)
                THEN /\ econtext'.innertuple = econtext.innertuple
                     /\ ScanCursor(node') = out'[Len(out')][1]
                ELSE /\ econtext'.outertuple = econtext.outertuple
                     /\ ScanCursor(node') = out'[Len(out')][2]]_vars

\* C10 for ExecSymHashJoin alone
SymScanResumes ==
    [][(impl = "sym" /\ running /\ InBucketScan /\ ret' = "row") =>
             /\ node'.hj_JoinState = node.hj_JoinState
             /\ IF ScansOuter(node)
                THEN /\ econtext'.innertuple = econtext.innertuple
                     /\ ScanCursor(node') = out'[Len(out')][1]
                ELSE /\ econtext'.outertuple = econtext.outertuple
                     /\ ScanCursor(node') = out'[Len(out')][2]]_vars

\* ExecHashJoinImpl never stores HJ_FILL_TUPLES in hj_JoinState and never has
\* a null tuple slot to fill with
HJNeverFills ==
    impl = "hj" =>
        /\ node.hj_JoinState # HJ_FILL_TUPLES
        /\ ~HJ_FILL_OUTER(node) /\ ~HJ_FILL_INNER(node)

(***************************************************************************)
(* Batch files.                                                            *)
(***************************************************************************)
RECURSIVE FlattenRecords(_)
FlattenRecords(recs) ==
    IF recs = <<>> THEN <<>>
    ELSE <<recs[1][1]>> \o recs[1][2] \o FlattenRecords(Tail(recs))
IsPrefix(s, t) == Len(s) <= Len(t) /\ SubSeq(t, 1, Len(s)) = s

C12_SpillRoundTrip ==
    impl = "spill" =>
       /\ spillTrace.status # "readerror"
       /\ spillTrace.status \in {"reading", "eof"} =>
             /\ IsPrefix(spillTrace.loaded, spillTrace.saved)
             /\ spillTrace.loaded # <<>> /\ spillTrace.status = "reading" =>
                   hashTupleSlot = spillTrace.loaded[Len(spillTrace.loaded)][2]
       /\ spillTrace.status = "eof" =>
             /\ spillTrace.loaded = spillTrace.saved
             /\ hashTupleSlot = 0
C12_TwoRecordsReadBack ==
    /\ impl = "spill"
    /\ spillTrace.status = "eof"
    /\ Len(spillTrace.loaded) = 2
    /\ Len(spillTrace.loaded[1][2]) # Len(spillTrace.loaded[2][2])

(***************************************************************************)
(* ExecHashJoinNewBatch.                                                   *)
(***************************************************************************)
\* a step that is one call of ExecHashJoinNewBatch, the batch the call ends
\* at (nbatch when it returns false), and the files of batch i before it
NewBatchStep ==
    /\ impl = "batch"
    /\ spillTrace.status = "probe"
    /\ spillTrace'.status \in {"newbatch", "done"}
ChosenBatch ==
    IF spillTrace'.status = "done" THEN hashtable.nbatch ELSE hashtable'.curbatch
BatchesAbove == (hashtable.curbatch + 1) .. (hashtable.nbatch - 1)
HasInner(i) == hashtable.innerBatchFile[i].open
HasOuter(i) == hashtable.outerBatchFile[i].open

RECURSIVE InnerRecords(_, _)
InnerRecords(ht, c) ==
    IF c >= ht.nbatch THEN <<>>
    ELSE (IF ht.innerBatchFile[c].open THEN ReadAll(BufFileSeek(ht.innerBatchFile[c]))
          ELSE <<>>) \o InnerRecords(ht, c + 1)
RowsPlacedRight(ht) ==
    /\ \A k \in 1 .. Len(ht.rows) : ht.rows[k][1] % ht.nbatch = ht.curbatch
    /\ \A b \in (ht.curbatch + 1) .. (ht.nbatch - 1) :
          ht.innerBatchFile[b].open =>
             \A rec \in Rng(ReadAll(BufFileSeek(ht.innerBatchFile[b]))) :
                \E nb \in 1 .. ht.nbatch : b < nb /\ rec[1] % nb = b

\* C14: the call passes over no batch that has an inner file when nbatch
\* differs from nbatch_original, and none that has an outer file when
\* nbatch differs from nbatch_outstart; the rows of the chosen batch's
\* inner file are, after the reload, in memory or in the inner file of a
\* later batch, each once, and no row of a later batch's file is lost
C14_GrownTableReload ==
    [][NewBatchStep =>
         /\ \A i \in BatchesAbove :
               i < ChosenBatch =>
                  /\ ~(HasInner(i) /\ hashtable.nbatch # hashtable.nbatch_original)
                  /\ ~(HasOuter(i) /\ hashtable.nbatch # hashtable.nbatch_outstart)
         /\ spillTrace'.status = "newbatch" =>
               /\ SameMultiset(hashtable'.rows
                                 \o InnerRecords(hashtable', hashtable'.curbatch + 1),
                               InnerRecords(hashtable, hashtable'.curbatch))
               /\ Len(hashtable'.rows)
                    + Len(InnerRecords(hashtable', hashtable'.curbatch + 1))
                  = Len(InnerRecords(hashtable, hashtable'.curbatch))
               /\ RowsPlacedRight(hashtable')]_vars
C14_InnerOnlyBatchOfGrownTable ==
    /\ impl = "batch"
    /\ spillTrace.status = "newbatch"
    /\ hashtable.nbatch # hashtable.nbatch_outstart
    /\ hashtable.curbatch >= hashtable.nbatch_outstart
    /\ hashtable.rows # <<>>
    /\ ~hashtable.outerBatchFile[hashtable.curbatch].open

\* C15: the batches between 0 and the current one have both files closed;
\* the current batch's inner file is closed once its call has returned;
\* after a call that returned false every file above the batch that was
\* current is closed
C15_FilesReleased ==
    impl = "batch" =>
       /\ \A i \in 1 .. (hashtable.curbatch - 1) :
             ~hashtable.innerBatchFile[i].open /\ ~hashtable.outerBatchFile[i].open
       /\ spillTrace.status = "newbatch" =>
             ~hashtable.innerBatchFile[hashtable.curbatch].open
       /\ spillTrace.status = "done" =>
             \A i \in (hashtable.curbatch + 1) .. (hashtable.nbatch - 1) :
                ~hashtable.innerBatchFile[i].open /\ ~hashtable.outerBatchFile[i].open
C15_SkippedFilesClosed ==
    /\ impl = "batch"
    /\ spillTrace.status \in {"newbatch", "done"}
    /\ spillTrace.closed >= 2

(***************************************************************************)
(* Faults and cancel requests.                                             *)
(***************************************************************************)
\* C16: a round of the operator's loop that finds hj_JoinState outside the
\* six states ends the call in an error, in ExecSymHashJoin and in
\* ExecHashJoinImpl
C16_UnrecognizedStateRaises ==
    [][(/\ impl \in {"sym", "hj"}
        /\ running
        /\ ~interruptPending
        /\ node.hj_JoinState \notin RecognizedStates
        /\ (spins' # spins \/ ret' # ret \/ running' # running))
       => ret' = "error"]_vars

\* C17: with a cancel request pending, a round of either state machine makes
\* no state transition but ends the call cancelled; ExecHashJoinGetSavedTuple
\* reads no record; ExecParallelHashJoinPartitionOuter stops after the row
\* it was fetching
C17_CancelObserved ==
    [][interruptPending =>
         /\ (/\ impl \in {"sym", "hj"}
             /\ running
             /\ <<pulls, node, hashNode, tab, econtext, running, ret, out, eosCalls,
                  spins>>' # <<pulls, node, hashNode, tab, econtext, running, ret,
                               out, eosCalls, spins>>)
            => /\ ret' = "cancelled"
               /\ UNCHANGED <<pulls, node, hashNode, tab, econtext, out>>
         /\ (impl = "spill" /\ spillTrace.status = "reading" /\ spillTrace' # spillTrace)
            => /\ spillTrace'.status = "cancelled"
               /\ spillTrace'.loaded = spillTrace.loaded
               /\ UNCHANGED <<batchFile, hashTupleSlot>>
         /\ (impl = "partition" /\ pulls' # pulls)
            => /\ spillTrace'.status = "cancelled"
               /\ pulls'.outer = pulls.outer + 1]_vars
C17_CancelledInBucketScan ==
    /\ impl = "hj"
    /\ ret = "cancelled"
    /\ node.hj_JoinState \in {HJ_SCAN_OUTER_BUCKET, HJ_SCAN_INNER_BUCKET}
    /\ out # <<>>

\* C18: a call of ExecParallelHashJoinNewBatch made with every batch marked
\* done, or with the batch array freed, calls no BarrierArriveAndWait,
\* attaches to no batch and returns false, not an error; no call tests the
\* done flag of a batch number twice
C18_NothingLeftReturnsFalse ==
    impl = "newbatch" =>
       \A w \in Workers :
          LET p == participant[w]
          IN /\ p.result # "error"
             /\ Len(p.examined) = Cardinality(Rng(p.examined))
             /\ (p.allDone /\ (p.pc # "out" \/ p.result = "false")) =>
                   /\ p.pc \in {"search", "out"}
                   /\ ~p.waited
                   /\ p.curbatch = -1
                   /\ \A b \in BatchNos : ~AttachedTo(w, b)
             /\ (p.batchesNull /\ p.pc = "out" /\ p.result # "none") =>
                   /\ p.result = "false"
                   /\ p.examined = <<>>
                   /\ ~p.waited
                   /\ \A b \in BatchNos : ~AttachedTo(w, b)
C18_EveryBatchDone ==
    /\ impl = "newbatch"
    /\ \E w, v \in Workers :
          /\ participant[w].allDone
          /\ participant[w].result = "false"
          /\ Len(participant[w].examined) = NBatch
          /\ participant[v].batchesNull
          /\ participant[v].result = "false"

(***************************************************************************)
(* Tables and match bits across ExecReScanHashJoin and ExecEndHashJoin.    *)
(***************************************************************************)
\* C19: ExecEndHashJoin leaves both table pointers NULL, the tables
\* destroyed, and so does ExecReScanHashJoin, so that no call after a rescan
\* works on a table of the scan before
C19_TablesDestroyed ==
    [][impl = "hj" =>
         /\ (ret' = "ended" /\ ret # "ended") =>
               tab'.inner = NULLTABLE /\ tab'.outer = NULLTABLE
         /\ rescans' # rescans =>
               tab'.inner = NULLTABLE /\ tab'.outer = NULLTABLE]_vars

TablesBuilt == tab.inner # NULLTABLE \/ tab.outer # NULLTABLE

C21_ShutdownDetaches ==
    [][(dsm'.shutdown /\ ~dsm.shutdown) =>
          /\ TablesBuilt => dsm'.attached = {}
          /\ ~TablesBuilt => (node' = node /\ tab' = tab /\ dsm'.attached = dsm.attached)]_vars

(***************************************************************************)
(* C22: one invocation of dirtyread returns every tuple physically in the  *)
(* heap exactly once, dead ones included, in heap order, then reports      *)
(* done; heap_endscan and table_close are each called exactly once, by the *)
(* call that finds the scan exhausted.                                     *)
(***************************************************************************)
C22_DirtyreadReturnsAll ==
    impl = "dirtyread" /\ srf.result # "error" =>
       /\ IsPrefix(srf.returned, srf.heap)
       /\ srf.result = "done" =>
             /\ srf.returned = srf.heap
             /\ srf.endscans = 1 /\ srf.closes = 1
             /\ ~srf.scan.open /\ ~srf.rel
       /\ srf.result # "done" =>
             /\ srf.endscans = 0 /\ srf.closes = 0
             /\ srf.result = "next" => srf.scan.open /\ srf.rel

\* a drained heap holding a dead tuple that a plain scan does not show
C22_DeadTupleReturned ==
    /\ impl = "dirtyread" /\ srf.result = "done"
    /\ \E i \in 1..Len(srf.heap) :
          /\ srf.heap[i].dead
          /\ ~HeapTupleSatisfies(SnapshotMVCC, srf.heap[i])
          /\ Count(srf.returned, srf.heap[i]) = 1
    /\ \E i \in 1..Len(srf.heap) : ~srf.heap[i].dead

(***************************************************************************)
(* C23: in ExecSymHashJoin a stored row's match bit is set exactly when    *)
(* the join qualifier has succeeded for a pair holding that row: a step of *)
(* a bucket scan whose candidate passes the join qualifier sets the bit of *)
(* the candidate and of the probing row just pulled and no other bit, any  *)
(* other step changes no bit; so only rows with a partner carry a bit, and *)
(* once the join is drained every such row does.                           *)
(***************************************************************************)
MatchBits(t) == [s \in Sides |-> t[s].matched]
\* the probing row of the scan the operator is in, and its side
ProbingSide == IF ScansOuter(node) THEN "inner" ELSE "outer"
ProbingRow == IF ScansOuter(node) THEN econtext.innertuple ELSE econtext.outertuple

C23_MatchBits ==
    /\ [](impl = "sym" =>
            \A s \in Sides : tab[s].matched \subseteq {r \in RowsOf(s) : HasMatch(s, r)})
    /\ [](impl = "sym" /\ eosCalls >= 1 =>
            \A s \in Sides : tab[s].matched = {r \in RowsOf(s) : HasMatch(s, r)})
    /\ [][impl = "sym" =>
            IF /\ running /\ InBucketScan
               /\ node'.hj_JoinState = node.hj_JoinState
               /\ QualHolds(joinqual, econtext'.outertuple, econtext'.innertuple)
            THEN MatchBits(tab') =
                    [s \in Sides |->
                        tab[s].matched \cup
                           (IF s = ProbingSide THEN {ProbingRow} ELSE {ScanCursor(node')})]
            ELSE MatchBits(tab') = MatchBits(tab)]_vars

\* drained: a row whose key equals a stored key of the other side carries
\* no bit because the join qualifier failed for it, while other rows do
C23_HashEqualButUnmatched ==
    /\ impl = "sym" /\ eosCalls >= 1 /\ joinqual # NULLQ
    /\ \E o \in RowsOf("outer"), i \in RowsOf("inner") :
          /\ HashClauses(OuterKey(o), InnerKey(i))
          /\ o \notin tab.outer.matched
    /\ tab.outer.matched # {} /\ tab.inner.matched # {}

(***************************************************************************)
(* C24: when ExecSymHashJoin pulls a row whose join key is NULL it starts  *)
(* no bucket scan for it, and the producer it pulls from next is the one   *)
(* the row came from: it is left in the state that pulls that side, unless *)
(* only the other side being exhausted brings it back there.               *)
(***************************************************************************)
\* the step pulls a row with a NULL key from the producer of side s
PullsNullKey(s) ==
    /\ pulls'[s] = pulls[s] + 1
    /\ ProducerNext(s, pulls[s]) # 0
    /\ KeyOf(s, ProducerNext(s, pulls[s])) = NULLKEY
SymPullState(s) ==
    IF s = "inner" THEN SYM_HJ_NEED_NEW_INNER ELSE SYM_HJ_NEED_NEW_OUTER

C24_NullKeyKeepsSide ==
    [][\A s \in Sides :
          (impl = "sym" /\ PullsNullKey(s)) =>
             /\ node'.hj_JoinState \notin {SYM_HJ_SCAN_OUTER_BUCKET, SYM_HJ_SCAN_INNER_BUCKET}
             /\ \/ node'.hj_JoinState = SymPullState(s)
                \/ SymDone(node', Other(s))]_vars

(***************************************************************************)
(* C25: in both operators a producer that reports end-of-stream has its    *)
(* side marked done, and the side stays done; from that step the operator  *)
(* goes to pull the other side if that is not done, and to the completion  *)
(* scan or to end-of-stream if it is; a producer that has reported         *)
(* end-of-stream is not called again.                                      *)
(***************************************************************************)
SideDone(s) == IF impl = "sym" THEN SymDone(node, s) ELSE ~HJNotEmpty(node, s)
\* the step makes the ExecProcNode call that finds the producer of s exhausted
ReportsEnd(s) == pulls'[s] > pulls[s] /\ pulls'[s] > Len(Visible(s))
PullStateOf(s) == IF impl = "sym" THEN SymPullState(s) ELSE HJNeedNewState(s)

\* where the operator is after the step that found side s exhausted
GoesOnAfterEnd(s) ==
    IF ~SideDone(Other(s))
    THEN running' /\ node'.hj_JoinState = PullStateOf(Other(s))
    ELSE \/ ret' = "eos"
         \/ impl = "sym" /\ running' /\ node'.hj_JoinState = SYM_HJ_FILL_TUPLES
StaysDone(s) == SideDone(s) => (SideDone(s)' /\ pulls'[s] = pulls[s])
MarkedDone(s) == ReportsEnd(s) => (SideDone(s)' /\ GoesOnAfterEnd(s))

C25_ExhaustedSideStaysDone ==
    /\ [](impl \in {"sym", "hj"} => \A s \in Sides : pulls[s] <= Len(Visible(s)) + 1)
    /\ [][(impl \in {"sym", "hj"}) => \A s \in Sides : StaysDone(s) /\ MarkedDone(s)]_vars

\* ExecHashJoinImpl scans the inner table for an outer row that it pulled
\* after the inner producer had reported end-of-stream
C25_PullsOtherSideAfterEnd ==
    /\ impl = "hj" /\ running
    /\ SideDone("inner") /\ ~SideDone("outer")
    /\ pulls.inner = Len(Visible("inner")) + 1
    /\ pulls.outer = 2
    /\ node.hj_JoinState = HJ_SCAN_INNER_BUCKET
    /\ econtext.outertuple = 2

(***************************************************************************)
(* C26: neither operator returns end-of-stream before both producers have  *)
(* reported end-of-stream: when a call returns NULL every row of both      *)
(* producers has been pulled and each producer has been found exhausted.   *)
(***************************************************************************)
ProducerEnded(s) == pulls[s] = Len(Visible(s)) + 1

C26_EndOnlyAfterBothEnded ==
    (impl \in {"sym", "hj"} /\ ret = "eos") => \A s \in Sides : ProducerEnded(s)

(***************************************************************************)
(* C28: when a row is pulled and a bucket scan is started for it, the      *)
(* bucket number of the scan is the row's hash value taken modulo the      *)
(* bucket count of the OPPOSITE table, the table the scan goes through, in *)
(* ExecHashJoinImpl and in ExecSymHashJoin.                                *)
(***************************************************************************)
\* the step pulls a row from side s and starts its bucket scan
StartsScan(s) ==
    /\ pulls'[s] > pulls[s]
    /\ node'.hj_JoinState =
          (IF impl = "sym" THEN SymScanState(s) ELSE HJScanState(s))
\* the bucket number and the hash value the scan for a row of side s works with
ProbeBucketNo(n, s) ==
    IF impl = "sym" THEN n.hj_CurBucketNo
    ELSE IF s = "inner" THEN n.hj_CurBucketNo_inner ELSE n.hj_CurBucketNo_outer
ProbeHashValue(n, s) ==
    IF impl = "sym"
    THEN (IF s = "inner" THEN n.hj_CurOutHashValue ELSE n.hj_CurHashValue)
    ELSE (IF s = "inner" THEN n.hj_CurHashValue_inner ELSE n.hj_CurHashValue_outer)

C28_ProbeBucketOfOppositeTable ==
    [][\A s \in Sides :
          ((impl \in {"sym", "hj"}) /\ StartsScan(s)) =>
             ProbeBucketNo(node', s) = ProbeHashValue(node', s) % tab'[Other(s)].nbuckets]_vars

\* C28 for ExecSymHashJoin alone
SymProbeBucketOfOppositeTable ==
    [][\A s \in Sides :
          (impl = "sym" /\ StartsScan(s)) =>
             ProbeBucketNo(node', s) = ProbeHashValue(node', s) % tab'[Other(s)].nbuckets]_vars

SymEveryCallReturns == impl = "sym" => ret \in {"none", "row", "eos"}

(***************************************************************************)
(* C29: with single_match set at initialisation (a semi join) only the     *)
(* first matching inner row of an outer row is considered: the rows        *)
(* returned never hold two joined rows with the same outer row.            *)
(***************************************************************************)
JoinedRowsOf(o) == {k \in 1..Len(out) : Joined(out[k]) /\ out[k][1] = o}

C29_SingleMatchOncePerOuterRow ==
    ((impl \in {"sym", "hj"}) /\ node.single_match) =>
        \A o \in RowsOf("outer") : Cardinality(JoinedRowsOf(o)) <= 1

(***************************************************************************)
(* C30: in every interleaving the shared hash table of a batch is          *)
(* allocated by exactly one worker, the one elected at the end of phase    *)
(* ELECTING, and no worker puts a row into it before the allocation is     *)
(* complete, that is before the barrier has left phase ALLOCATING.         *)
(***************************************************************************)
\* the workers about to allocate the table of batch b
Allocators(b) ==
    {w \in Workers : participant[w].pc = "alloc" /\ participant[w].batchno = b}

C30_OneAllocatorBeforeLoading ==
    /\ [](impl = "newbatch" =>
            \A b \in BatchNos :
               /\ batches[b].allocs + Cardinality(Allocators(b)) <= 1
               /\ Allocators(b) # {} => batches[b].phase = PHJ_BATCH_ALLOCATING
               /\ batches[b].phase > PHJ_BATCH_ALLOCATING => batches[b].allocs = 1
               /\ batches[b].loaded > 0 => batches[b].allocs = 1)
    /\ [][impl = "newbatch" =>
            \A b \in BatchNos :
               /\ batches'[b].allocs # batches[b].allocs =>
                     /\ batches[b].allocs = 0 /\ batches'[b].allocs = 1
                     /\ batches[b].phase = PHJ_BATCH_ALLOCATING
               /\ batches'[b].loaded # batches[b].loaded =>
                     /\ batches[b].allocs = 1
                     /\ batches[b].phase > PHJ_BATCH_ALLOCATING]_vars

\* both workers arrived at the election of batch 1: one of them was elected
\* and has allocated the table, the other has not woken up yet
C30_ElectedAmongTwo ==
    /\ impl = "newbatch"
    /\ batches[1].participants = 2
    /\ batches[1].phase = PHJ_BATCH_ALLOCATING
    /\ batches[1].allocs = 1
    /\ batches[1].loaded = 0
    /\ \E w, v \in Workers :
          /\ participant[w].batchno = 1 /\ participant[v].batchno = 1
          /\ participant[w].pc = "case" /\ participant[w].at = PHJ_BATCH_ALLOCATING
          /\ participant[v].pc = "wait" /\ participant[v].at = PHJ_BATCH_ELECTING

(***************************************************************************)
(* C31: in every interleaving, once ExecParallelHashJoinNewBatch has       *)
(* returned true to some worker for a batch, no worker inserts another row *)
(* into the shared hash table of that batch: the loading of every attached *)
(* worker is over before the barrier of the batch enters PROBING.          *)
(***************************************************************************)
\* the workers in the loading loop of batch b
Loaders(b) ==
    {w \in Workers : participant[w].pc \in {"load", "insert"} /\ participant[w].batchno = b}
\* batch b has been handed to some worker for probing
HandedOut(b) ==
    \E w \in Workers : participant[w].done[b] \/ ReturningRows(w, b)

C31_TableImmutableWhileProbed ==
    /\ [](impl = "newbatch" =>
            \A b \in BatchNos :
               /\ HandedOut(b) => batches[b].phase >= PHJ_BATCH_PROBING
               /\ batches[b].phase >= PHJ_BATCH_PROBING =>
                     /\ Loaders(b) = {}
                     /\ batches[b].store = 0
                     /\ batches[b].loaded = BatchRows)
    /\ [][impl = "newbatch" =>
            \A b \in BatchNos :
               batches'[b].loaded # batches[b].loaded =>
                  /\ batches[b].phase = PHJ_BATCH_LOADING
                  /\ batches'[b].phase = PHJ_BATCH_LOADING
                  /\ ~HandedOut(b)]_vars

\* two workers each loaded a row of batch 1, and one of them probes it while
\* the other has not yet woken from the LOADING barrier
C31_ProbingAfterSharedLoading ==
    /\ impl = "newbatch"
    /\ batches[1].loaded = BatchRows
    /\ \E w, v \in Workers :
          /\ ReturningRows(w, 1)
          /\ participant[v].pc = "wait" /\ participant[v].batchno = 1
          /\ participant[v].at = PHJ_BATCH_LOADING

(***************************************************************************)
(* C32: every call of ExecParallelHashJoinNewBatch that reaches the search *)
(* adds exactly one to the shared distributor counter and no two calls     *)
(* obtain the same counter value; the search starts at the value obtained  *)
(* modulo nbatch and tests the batches in cyclic increasing order from     *)
(* there, so a call that returns false has tested every batch once, and a  *)
(* call that returns true has passed over only batches the worker holds    *)
(* done.                                                                   *)
(***************************************************************************)
\* the i-th batch number of the cyclic order that begins at start
CyclicFrom(start, i) == (start + i - 1) % NBatch
\* worker w is inside a call that has reached the search
Searching(w) == participant[w].pc \notin {"out"}

C32_RoundRobin ==
    /\ [](impl = "newbatch" =>
            /\ \A w \in Workers :
                  LET p == participant[w]
                  IN /\ p.ticket < distributor
                     /\ p.ticket >= 0 =>
                           /\ p.start_batchno = p.ticket % NBatch
                           /\ Len(p.examined) <= NBatch
                           /\ \A i \in 1..Len(p.examined) :
                                  p.examined[i] = CyclicFrom(p.start_batchno, i)
                           /\ Searching(w) =>
                                  p.batchno = CyclicFrom(p.start_batchno,
                                                IF p.pc = "search" THEN Len(p.examined) + 1
                                                ELSE Len(p.examined))
                           /\ p.pc = "out" /\ p.result = "false" /\ ~p.batchesNull =>
                                  Len(p.examined) = NBatch
                           /\ p.pc = "out" /\ p.result = "true" =>
                                  /\ p.curbatch = p.examined[Len(p.examined)]
                                  /\ \A i \in 1..(Len(p.examined) - 1) : p.done[p.examined[i]]
            /\ \A w, v \in Workers :
                  w # v /\ participant[w].ticket >= 0 =>
                     participant[w].ticket # participant[v].ticket)
    /\ [][impl = "newbatch" =>
            /\ distributor' \in {distributor, distributor + 1}
            /\ \A w \in Workers :
                  /\ participant'[w].ticket # participant[w].ticket =>
                        /\ participant'[w].ticket = distributor
                        /\ distributor' = distributor + 1
                        /\ participant[w].pc = "out" /\ participant'[w].pc = "search"
                        /\ participant'[w].batchno = distributor % NBatch
                        /\ participant'[w].examined = <<>>
                  /\ participant[w].pc = "out" /\ participant'[w].pc = "search" =>
                        participant'[w].ticket # participant[w].ticket
            /\ distributor' # distributor =>
                  \E w \in Workers :
                     /\ participant'[w].ticket = distributor
                     /\ \A v \in Workers \ {w} : participant'[v] = participant[v]]_vars

\* a worker whose search began at batch 1 has gone round to batch 0, while
\* the other worker searches with the counter value before it
C32_WrappedSearch ==
    /\ impl = "newbatch"
    /\ \E w, v \in Workers :
          /\ participant[w].start_batchno = 1
          /\ participant[w].examined = <<1, 0>>
          /\ participant[w].ticket = participant[v].ticket + 1
          /\ participant[v].ticket >= 0
          /\ Searching(v)

(***************************************************************************)
(* C33: a worker is attached to at most one batch barrier at any time; on  *)
(* entry ExecParallelHashJoinNewBatch marks the batch the worker was       *)
(* attached to as done and detaches from it before it attaches to another; *)
(* a worker never attaches to a batch it has marked done, so it probes     *)
(* each batch at most once.                                                *)
(***************************************************************************)
\* the workers that attached to the barrier of batch b and have not detached
Attached(b) == {w \in Workers : AttachedTo(w, b)}

C33_OneBatchPerWorker ==
    /\ [](impl = "newbatch" =>
            /\ \A b \in BatchNos : batches[b].participants = Cardinality(Attached(b))
            /\ \A w \in Workers :
                  /\ Cardinality({b \in BatchNos : AttachedTo(w, b)}) <= 1
                  /\ \A b \in BatchNos : AttachedTo(w, b) => ~participant[w].done[b]
                  /\ participant[w].pc = "search" => participant[w].curbatch = -1)
    /\ [][impl = "newbatch" =>
            \A w \in Workers : \A b \in BatchNos :
               /\ participant[w].done[b] => participant'[w].done[b]
               /\ ~AttachedTo(w, b) /\ AttachedTo(w, b)' =>
                     /\ \A c \in BatchNos : ~AttachedTo(w, c)
                     /\ ~participant[w].done[b]
                     /\ batches'[b].participants = batches[b].participants + 1
               /\ participant[w].pc = "out" /\ participant'[w].pc = "search"
                     /\ participant[w].curbatch = b =>
                     /\ participant'[w].done[b]
                     /\ ~AttachedTo(w, b)'
                     /\ batches'[b].participants = batches[b].participants - 1
               /\ ~ReturningRows(w, b) /\ ReturningRows(w, b)' =>
                     ~participant[w].done[b]]_vars

\* a worker that probed batch 0 has marked it done and is attached to batch
\* 1, to which the other worker is attached as well
C33_MovedToNextBatch ==
    /\ impl = "newbatch"
    /\ batches[0].participants = 0
    /\ batches[1].participants = 2
    /\ \E w \in Workers :
          /\ participant[w].done[0]
          /\ participant[w].ticket > 1
          /\ AttachedTo(w, 1)

(***************************************************************************)
(* C34: a worker that attaches to a batch barrier found in phase P does    *)
(* only the work of the phases at or after P.  Attaching in ALLOCATING it  *)
(* never allocates; attaching in LOADING it neither allocates nor waits    *)
(* for the allocation; attaching in PROBING it neither allocates, loads    *)
(* nor waits; attaching in DONE it detaches at once, marks the batch done  *)
(* and is left with no current batch.                                      *)
(***************************************************************************)
C34_LateAttachment ==
    /\ [](impl = "newbatch" =>
            \A w \in Workers :
               LET p == participant[w]
               IN p.found >= 0 =>
                    /\ \A c \in p.cases : c >= p.found
                    /\ p.pc \in {"case", "wait"} => p.at >= p.found
                    /\ p.allocated \/ p.pc = "alloc" => p.found = PHJ_BATCH_ELECTING
                    /\ p.pc \in {"load", "insert"} => p.found <= PHJ_BATCH_LOADING
                    /\ p.found >= PHJ_BATCH_PROBING => ~p.waited /\ p.pc # "wait"
                    /\ p.pc = "case" /\ p.at = PHJ_BATCH_DONE => p.found = PHJ_BATCH_DONE)
    /\ [][impl = "newbatch" =>
            \A w \in Workers :
               LET p == participant[w]
                   b == p.batchno
               IN /\ p.pc = "case" /\ p.found = PHJ_BATCH_DONE /\ participant'[w] # p =>
                        /\ batches'[b].participants = batches[b].participants - 1
                        /\ participant'[w].done[b]
                        /\ participant'[w].curbatch = -1
                        /\ participant'[w].cases = {PHJ_BATCH_DONE}
                  /\ p.pc = "case" /\ p.found = PHJ_BATCH_PROBING /\ participant'[w] # p =>
                        /\ batches' = batches
                        /\ participant'[w].pc = "out" /\ participant'[w].result = "true"
                        /\ participant'[w].curbatch = b]_vars

\* one worker found batch 1 in LOADING and loads without having waited for
\* the allocation, which the other worker made
C34_JoinedTheLoading ==
    /\ impl = "newbatch"
    /\ \E w, v \in Workers :
          /\ participant[w].found = PHJ_BATCH_LOADING
          /\ participant[w].pc = "insert"
          /\ participant[w].cases = {PHJ_BATCH_LOADING}
          /\ ~participant[w].waited
          /\ participant[v].allocated /\ participant[v].batchno = 1

(***************************************************************************)
(* C35: if every worker keeps calling ExecParallelHashJoinNewBatch until   *)
(* it gets false, then under fair scheduling no worker waits forever at a  *)
(* batch barrier, every worker eventually gets false, and once all have,   *)
(* every batch barrier is in phase DONE with no worker attached.           *)
(***************************************************************************)
GotFalse(w) == participant[w].pc = "out" /\ participant[w].result = "false"
AllGotFalse == \A w \in Workers : GotFalse(w)

C35_BatchesComplete ==
    /\ \A w \in Workers : (participant[w].pc = "wait") ~> (participant[w].pc # "wait")
    /\ \A w \in Workers : <>[]GotFalse(w)
    /\ [](AllGotFalse =>
            \A b \in BatchNos :
               batches[b].phase = PHJ_BATCH_DONE /\ batches[b].participants = 0)

\* every worker got false in its third call or later, after it had been
\* attached to every batch
C35_AllFinished ==
    /\ impl = "newbatch"
    /\ AllGotFalse
    /\ \A b \in BatchNos : batches[b].phase = PHJ_BATCH_DONE
    /\ \A w \in Workers :
          /\ participant[w].ticket >= 2
          /\ \A b \in BatchNos : participant[w].done[b]

(***************************************************************************)
(* C36: ExecParallelHashJoinPartitionOuter writes every outer row whose    *)
(* hash value can be computed (its key is not NULL, or the join null-fills *)
(* the outer side) exactly once, to the shared outer store of the batch    *)
(* its hash value selects and to no other; a row whose key is rejected is  *)
(* written nowhere; and when the function returns, writing has been ended  *)
(* on the outer store of every batch.                                      *)
(***************************************************************************)
\* outer row o has a hash value: the plan's join null-fills the outer side
Hashable(o) == OuterKey(o) # NULLKEY \/ planJoinType = "JOIN_LEFT"
\* outer row o has a hash value for the operator as ExecInitHashJoin set it up
HashableAsInitialized(o) == OuterKey(o) # NULLKEY \/ HJ_FILL_OUTER(node)
\* the batch of outer row o
BatchOfOuter(o) == (IF OuterKey(o) = NULLKEY THEN 0 ELSE HashOf(OuterKey(o))) % NBatch
\* how often row o stands in the store of batch b
TimesWritten(o, b) ==
    Cardinality({i \in 1..Len(hashtable.outer_tuples[b]) : hashtable.outer_tuples[b][i] = o})
\* writing is ended on every store exactly when the function has returned,
\* which it does only at the end of the outer input
WritingEnded ==
    /\ \A b \in 0 .. NBatch - 1 :
          /\ \A i \in 1..Len(hashtable.outer_tuples[b]) :
                hashtable.outer_tuples[b][i] \in 1..pulls.outer
          /\ hashtable.writing[b] = (spillTrace.status # "partitioned")
    /\ spillTrace.status = "partitioned" => pulls.outer = Len(outerIn)

PartitionOuterAsInitialized ==
    impl = "partition" =>
       /\ \A o \in 1..Len(outerIn) : \A b \in 0 .. NBatch - 1 :
             TimesWritten(o, b) =
                IF o <= pulls.outer /\ HashableAsInitialized(o) /\ b = BatchOfOuter(o)
                THEN 1 ELSE 0
       /\ WritingEnded

(***************************************************************************)
(* C37: ExecHashJoinGetSavedTuple takes only a read of nothing at a record *)
(* boundary for the end of the file: it then returns NULL with the slot    *)
(* cleared.  A header read that returns something but less than the whole  *)
(* header, or a payload read that returns less than the length word asks   *)
(* for, ends in an error and yields neither a row nor end-of-file.         *)
(***************************************************************************)
\* a batch file cut off at any word: the records that were saved to it, and
\* the words of them that are in the file
SavedRecords == UNION {[1..k -> HashValues \X MinimalTuples] : k \in 0..MaxRecords}
TruncatedInit ==
    /\ impl = "truncated"
    /\ planJoinType = "JOIN_INNER"
    /\ NoInputs
    /\ IdleOperator
    /\ \E recs \in SavedRecords : \E n \in 0..Len(FlattenRecords(recs)) :
          /\ batchFile = [open |-> TRUE, words |-> SubSeq(FlattenRecords(recs), 1, n),
                          pos |-> 0]
          /\ spillTrace = [NOTRACE EXCEPT !.status = "reading", !.saved = recs]
    /\ hashTupleSlot = 0
    /\ hashtable = NOHASHTABLE
    /\ interruptPending = FALSE
    /\ srf = NOSRF
    /\ vec = NOVEC
    /\ spins = 0
SpecTruncated == TruncatedInit /\ [][SpillGet]_vars

\* the words between the file position and the end of the file
WordsLeft == Len(batchFile.words) - batchFile.pos
\* the length word of the record at the file position
LengthWord == batchFile.words[batchFile.pos + 2]

C37_ShortReadIsError ==
    [][(impl = "truncated" /\ spillTrace.status = "reading") =>
         /\ WordsLeft = 0 =>
               spillTrace'.status = "eof" /\ hashTupleSlot' = 0
         /\ WordsLeft = 1 => spillTrace'.status = "readerror"
         /\ WordsLeft >= 2 /\ WordsLeft - 2 < LengthWord - 1 =>
               spillTrace'.status = "readerror"
         /\ WordsLeft >= 2 /\ WordsLeft - 2 >= LengthWord - 1 =>
               /\ spillTrace'.status = "reading"
               /\ hashTupleSlot' =
                     SubSeq(batchFile.words, batchFile.pos + 2, batchFile.pos + 1 + LengthWord)
               /\ batchFile'.pos = batchFile.pos + 1 + LengthWord
         /\ spillTrace'.status = "readerror" =>
               /\ hashTupleSlot' = hashTupleSlot
               /\ spillTrace'.loaded = spillTrace.loaded]_vars

\* one record was read back whole and the read of the next, whose payload is
\* cut short, has ended in an error
C37_SecondPayloadCutShort ==
    /\ impl = "truncated"
    /\ spillTrace.status = "readerror"
    /\ Len(spillTrace.loaded) = 1
    /\ Len(batchFile.words) = Len(FlattenRecords(spillTrace.loaded)) + 3
    /\ batchFile.words[Len(batchFile.words) - 1] = 3

(***************************************************************************)
(* C38: a call of ExecHashJoinNewBatch that returns true leaves curbatch   *)
(* greater than before and below nbatch, with the in-memory table emptied  *)
(* and reloaded from the inner file of that batch; a call that returns     *)
(* false leaves curbatch as it was; so while nbatch stays what it was at   *)
(* the start, at most nbatch - 1 calls return true.                        *)
(***************************************************************************)
\* the records in file f
FileRecords(f) == IF f.open THEN ReadAll(BufFileSeek(f)) ELSE <<>>

C38_NewBatchProgress ==
    /\ [](impl = "batch" =>
            /\ hashtable.curbatch < hashtable.nbatch
            /\ spillTrace.newbatches <= hashtable.curbatch
            /\ hashtable.nbatch = hashtable.nbatch_original =>
                  spillTrace.newbatches <= hashtable.nbatch - 1)
    /\ [][NewBatchStep =>
            /\ spillTrace'.status = "newbatch" =>
                  /\ hashtable'.curbatch > hashtable.curbatch
                  /\ hashtable'.curbatch < hashtable.nbatch
                  /\ hashtable'.nbatch >= hashtable.nbatch
                  /\ hashtable'.rows =
                        Keep(FileRecords(hashtable.innerBatchFile[hashtable'.curbatch]),
                             hashtable'.nbatch, hashtable'.curbatch, TRUE)
                  /\ spillTrace'.newbatches = spillTrace.newbatches + 1
            /\ spillTrace'.status = "done" =>
                  /\ hashtable'.curbatch = hashtable.curbatch
                  /\ hashtable'.nbatch = hashtable.nbatch
                  /\ spillTrace'.newbatches = spillTrace.newbatches]_vars

\* the second call that returned true passed over a batch and reloaded rows
\* into a table that held rows of the batch before
C38_SecondBatchReloaded ==
    /\ impl = "batch"
    /\ spillTrace.status = "newbatch"
    /\ spillTrace.newbatches = 2
    /\ hashtable.curbatch = 3
    /\ hashtable.rows # <<>>

(***************************************************************************)
(* C39: vector_add, vector_sub and vector_distance raise "vectors must     *)
(* have same dimension" exactly when their two arguments differ in the     *)
(* number of elements; otherwise vector_add and vector_sub return a vector *)
(* of as many elements as the arguments have.                              *)
(***************************************************************************)
C39_SameDimension ==
    (impl = "vector" /\ vec.fn # "none") =>
       /\ (vec.status = "vectors must have same dimension")
             = (Len(vec.left.data) # Len(vec.right.data))
       /\ Len(vec.left.data) = Len(vec.right.data) =>
             /\ vec.status = "ok"
             /\ vec.fn \in {"vector_add", "vector_sub"} =>
                   /\ Len(vec.value.data) = Len(vec.left.data)
                   /\ vec.value.varsize = vec.left.varsize

\* vector_sub of two vectors of MaxDim elements has returned a vector
C39_DifferenceOfLongest ==
    /\ impl = "vector"
    /\ vec.fn = "vector_sub"
    /\ vec.status = "ok"
    /\ Len(vec.left.data) = MaxDim
    /\ vec.left.data # vec.right.data
    /\ Len(vec.value.data) = MaxDim

(***************************************************************************)
(* C40: vector_in accepts a text only if it begins with '{', ends with     *)
(* '}', holds at least one element, and every element token is a           *)
(* well-formed decimal number: spaces first if any, at most one sign,      *)
(* then digits with at most one decimal point, no other character and no   *)
(* space once the number has begun.  Every other text raises a format      *)
(* error; an accepted text gives a vector of one element per token.        *)
(***************************************************************************)
RECURSIVE LeadingSpaces(_)
LeadingSpaces(token) ==
    IF token # <<>> /\ token[1] = " " THEN 1 + LeadingSpaces(Tail(token)) ELSE 0
\* a decimal number; a decimal point stands after a digit
WellFormed(token) ==
    LET unspaced == SubSeq(token, LeadingSpaces(token) + 1, Len(token))
        number == IF unspaced # <<>> /\ unspaced[1] \in Signs THEN Tail(unspaced)
                  ELSE unspaced
    IN /\ number # <<>>
       /\ number[1] \in Digits
       /\ \A i \in 1..Len(number) : number[i] \in Digits \cup {"."}
       /\ Cardinality({i \in 1..Len(number) : number[i] = "."}) <= 1
Acceptable(text) ==
    LET tokens == strtok(text, 1, <<>>)
    IN /\ text[1] = "{" /\ text[Len(text)] = "}"
       /\ tokens # <<>>
       /\ \A k \in 1..Len(tokens) : WellFormed(tokens[k])

C40_VectorInValidates ==
    (impl = "vector_in" /\ vec.fn = "vector_in") =>
       /\ (vec.status = "ok") = Acceptable(vec.text)
       /\ vec.status = "ok" => vec.value = Len(strtok(vec.text, 1, <<>>))

\* what holds of both sources: the braces, the first token, and the count
VectorInOuterChecks ==
    (impl = "vector_in" /\ vec.fn = "vector_in") =>
       /\ vec.status = "ok" =>
             /\ vec.text[1] = "{" /\ vec.text[Len(vec.text)] = "}"
             /\ vec.value = Len(strtok(vec.text, 1, <<>>))
             /\ vec.value >= 1
       /\ Acceptable(vec.text) /\ vec.build = "part_000" => vec.status = "ok"
\* a text with two decimal points in one number is refused
TwoPointsRefused ==
    (impl = "vector_in" /\ vec.fn = "vector_in"
        /\ vec.text = <<"{", "1", ".", "1", ".", "1", "}">>) => vec.status # "ok"
\* the later source refuses a character that is none of a number's
OtherCharacterRefused ==
    (impl = "vector_in" /\ vec.fn = "vector_in" /\ vec.build = "part_000"
        /\ vec.text = <<"{", "1", "a", "}">>) => vec.status # "ok"

====
